---- MODULE Spec2Model ----
(***************************************************************************)
(* The chat controller of react-chart-app/src/components/ChatBot.js: the    *)
(* ChatBot component with its TypewriterText and AnimatedTable children,    *)
(* the localStorage session store and the timers they schedule.             *)
(*                                                                          *)
(* Strings are sequences of one-character strings, so that toLowerCase,     *)
(* includes, trim and slice are computed as the code computes them.  An     *)
(* optional value (null in the code) is the empty sequence, a present       *)
(* value x the one-element sequence <<x>>.  Time is the value of Date.now() *)
(* in milliseconds; a timer is due when its deadline is reached, and time   *)
(* never moves past a pending deadline.                                     *)
(***************************************************************************)
EXTENDS Integers, Sequences, FiniteSets, TLC

VARIABLES
  now,                    \* Date.now()
  storage,                \* localStorage: the three STORAGE_KEYS
  messages,               \* useState messages
  inputMessage,           \* useState inputMessage
  isLoading,              \* useState isLoading
  sessionId,              \* useState sessionId
  typingMessageId,        \* useState typingMessageId
  sidebarData,            \* useState sidebarData
  sidebarTyping,          \* useState sidebarTyping
  showInitialSuggestions, \* useState showInitialSuggestions
  lastUserQuery,          \* useState lastUserQuery
  sidebarBehavior,        \* useState sidebarBehavior
  showArtifact,           \* useState showArtifact
  autoCloseTimer,         \* useState autoCloseTimer (a timeout handle)
  request,                \* the axios.post call awaited by sendMessage
  timeouts,               \* pending setTimeout callbacks of the page
  nextTimerId,            \* the next handle setTimeout returns
  typewriters,            \* mounted TypewriterText instances, by log position
  table,                  \* the mounted AnimatedTable instance
  download,               \* the file the download link of ArtifactView was given
  created,                \* number of messages sendMessage has created so far
                          \* (a query is accepted only with room for its reply)
  actions,                \* number of user actions other than accepted submissions
  lastOp,                 \* the operation that produced this state
  before                  \* what that operation was given and what it found

vars == << now, storage, messages, inputMessage, isLoading, sessionId,
           typingMessageId, sidebarData, sidebarTyping, showInitialSuggestions,
           lastUserQuery, sidebarBehavior, showArtifact, autoCloseTimer,
           request, timeouts, nextTimerId, typewriters, table, download,
           created, actions, lastOp, before >>

\* The state of the ChatBot component and of everything it owns.
progVars == << storage, messages, inputMessage, isLoading, sessionId,
               typingMessageId, sidebarData, sidebarTyping,
               showInitialSuggestions, lastUserQuery, sidebarBehavior,
               showArtifact, autoCloseTimer, request, timeouts, nextTimerId,
               typewriters, table, download >>

----------------------------------------------------------------------------
\* Bounds of the exploration.

MaxCreated == 4
MaxActions == 1
StartClock == 1000

\* Program constants.

TypewriterSpeed == 20
TableRowInterval == 100
TableMaxRows == 50
AutoCloseDelay == 5000
TableStartDelay == 300
StorageCap == 100
AutoDecideMaxRows == 10
ArtifactMinRows == 50
GreetingId == 1

Null == << >>
Some(x) == << x >>

Min(a, b) == IF a <= b THEN a ELSE b
Max(a, b) == IF a >= b THEN a ELSE b

----------------------------------------------------------------------------
\* String primitives of the JavaScript runtime.

LowerOf(c) ==
  CASE c = "A" -> "a" [] c = "B" -> "b" [] c = "C" -> "c" [] c = "D" -> "d"
    [] c = "E" -> "e" [] c = "F" -> "f" [] c = "G" -> "g" [] c = "H" -> "h"
    [] c = "I" -> "i" [] c = "J" -> "j" [] c = "K" -> "k" [] c = "L" -> "l"
    [] c = "M" -> "m" [] c = "N" -> "n" [] c = "O" -> "o" [] c = "P" -> "p"
    [] c = "Q" -> "q" [] c = "R" -> "r" [] c = "S" -> "s" [] c = "T" -> "t"
    [] c = "U" -> "u" [] c = "V" -> "v" [] c = "W" -> "w" [] c = "X" -> "x"
    [] c = "Y" -> "y" [] c = "Z" -> "z" [] OTHER -> c

toLowerCase(s) == [i \in 1..Len(s) |-> LowerOf(s[i])]

includes(s, p) ==
  \E i \in 0..(Len(s) - Len(p)) : SubSeq(s, i + 1, i + Len(p)) = p

IsSpace(c) == c \in {" ", "\t", "\n", "\r"}

trim(s) ==
  IF \A i \in 1..Len(s) : IsSpace(s[i]) THEN << >>
  ELSE LET first == CHOOSE i \in 1..Len(s) :
                      ~IsSpace(s[i]) /\ \A j \in 1..(i - 1) : IsSpace(s[j])
           last  == CHOOSE i \in 1..Len(s) :
                      ~IsSpace(s[i]) /\ \A j \in (i + 1)..Len(s) : IsSpace(s[j])
       IN SubSeq(s, first, last)

\* slice that gives the whole string.
sliceWhole(s, from, to) == s

slice(s, from, to) == SubSeq(s, from + 1, Min(to, Len(s)))

\* list.some(phrase => s.includes(phrase))
includesAny(s, list) == \E i \in 1..Len(list) : includes(s, list[i])

Digits == <<"0","1","2","3","4","5","6","7","8","9">>

\* String(n) of a non-negative integer, as a template literal prints it.
RECURSIVE String(_)
String(n) ==
  IF n < 10 THEN << Digits[n + 1] >>
  ELSE String(n \div 10) \o << Digits[(n % 10) + 1] >>

IsAlphanumeric(c) ==
  \/ c \in {Digits[i] : i \in 1..10}
  \/ LowerOf(c) # c
  \/ c \in {"a","b","c","d","e","f","g","h","i","j","k","l","m",
             "n","o","p","q","r","s","t","u","v","w","x","y","z"}

\* list.join(sep)
RECURSIVE joinRange(_, _, _, _)
joinRange(list, sep, lo, hi) ==
  IF lo > hi THEN << >>
  ELSE IF lo = hi THEN list[lo]
  ELSE LET mid == (lo + hi) \div 2
       IN joinRange(list, sep, lo, mid) \o sep
            \o joinRange(list, sep, mid + 1, hi)

join(list, sep) == joinRange(list, sep, 1, Len(list))

----------------------------------------------------------------------------
\* classifyQuery, shouldShowArtifact, generateSuggestions.

simpleQueries ==
  << <<"h","o","w"," ","m","a","n","y">>,
     <<"c","o","u","n","t"," ","o","f">>,
     <<"t","o","t","a","l"," ","n","u","m","b","e","r">>,
     <<"d","o"," ","w","e"," ","h","a","v","e">>,
     <<"i","s"," ","t","h","e","r","e">>,
     <<"a","r","e"," ","t","h","e","r","e">>,
     <<"w","h","a","t"," ","i","s"," ","t","h","e"," ","c","o","u","n","t">>,
     <<"h","o","w"," ","m","u","c","h"," ","t","o","t","a","l">>,
     <<"w","h","a","t"," ","p","e","r","c","e","n","t","a","g","e">> >>

briefShowQueries ==
  << <<"w","h","o"," ","i","s">>,
     <<"w","h","i","c","h"," ","d","e","p","a","r","t","m","e","n","t"," ","h","a","s"," ","t","h","e"," ","m","o","s","t">>,
     <<"w","h","i","c","h"," ","c","o","u","n","t","r","y"," ","h","a","s"," ","t","h","e"," ","m","o","s","t">>,
     <<"t","o","p"," ","d","e","p","a","r","t","m","e","n","t">>,
     <<"h","i","g","h","e","s","t">>,
     <<"l","o","w","e","s","t">>,
     <<"m","o","s","t"," ","e","x","p","e","n","s","i","v","e">>,
     <<"c","h","e","a","p","e","s","t">> >>

detailedQueries ==
  << <<"s","h","o","w"," ","m","e">>,
     <<"l","i","s","t">>,
     <<"d","i","s","p","l","a","y">>,
     <<"f","i","n","d"," ","u","s","e","r","s">>,
     <<"b","r","e","a","k","d","o","w","n">>,
     <<"a","n","a","l","y","s","i","s">>,
     <<"b","y"," ","d","e","p","a","r","t","m","e","n","t">>,
     <<"b","y"," ","c","o","u","n","t","r","y">>,
     <<"a","c","t","i","v","i","t","y">>,
     <<"t","r","e","n","d","s">>,
     <<"d","e","t","a","i","l","s">> >>

\* classifyQuery testing the brief-show phrases before the simple ones.
classifyQueryBriefFirst(userQuery) ==
  LET query == toLowerCase(userQuery)
  IN IF includesAny(query, briefShowQueries) THEN "brief-show"
     ELSE IF includesAny(query, simpleQueries) THEN "no-sidebar"
     ELSE IF includesAny(query, detailedQueries) THEN "show-sidebar"
     ELSE "auto-decide"

classifyQuery(userQuery) ==
  LET query == toLowerCase(userQuery)
  IN IF includesAny(query, simpleQueries) THEN "no-sidebar"
     ELSE IF includesAny(query, briefShowQueries) THEN "brief-show"
     ELSE IF includesAny(query, detailedQueries) THEN "show-sidebar"
     ELSE "auto-decide"

artifactKeywords ==
  << <<"e","x","p","o","r","t">>,
     <<"d","o","w","n","l","o","a","d">>,
     <<"c","s","v">>,
     <<"e","x","c","e","l">>,
     <<"r","e","p","o","r","t">>,
     <<"f","u","l","l"," ","l","i","s","t">>,
     <<"c","o","m","p","l","e","t","e"," ","d","a","t","a">> >>

\* shouldShowArtifact by the keywords alone.
shouldShowArtifactKeywordsOnly(userQuery, results) ==
  LET query == toLowerCase(userQuery)
  IN includesAny(query, artifactKeywords)

shouldShowArtifact(userQuery, results) ==
  LET query == toLowerCase(userQuery)
  IN includesAny(query, artifactKeywords) \/ Len(results) > ArtifactMinRows

\* generateSuggestions testing the country keywords first.
generateSuggestionsCountryFirst(userQuery) ==
  LET query == toLowerCase(userQuery)
      has(w) == includes(query, w)
  IN IF has(<<"c","o","u","n","t","r","y">>)
          \/ has(<<"c","o","u","n","t","r","i","e","s">>) THEN
       << "Show me user distribution by country",
          "Which country has the most active users?",
          "What's the average activity per country?" >>
     ELSE IF has(<<"u","s","e","r">>) /\ has(<<"i","n","d","i","a">>) THEN
       << "Show me users from other countries",
          "What departments do India users work in?",
          "How many active users are there in total?" >>
     ELSE IF has(<<"d","e","p","a","r","t","m","e","n","t">>) THEN
       << "Which department has the most users?",
          "Show me user activity by department",
          "What licenses do IT department users have?" >>
     ELSE IF has(<<"l","i","c","e","n","s","e">>) THEN
       << "Show me license utilization rates",
          "Which licenses are most expensive?",
          "How many unlicensed users do we have?" >>
     ELSE IF has(<<"a","c","t","i","v","e">>) THEN
       << "Show me inactive users",
          "What makes a user active vs inactive?",
          "Show me user activity trends" >>
     ELSE
       << "How many users do we have by country?",
          "Show me license costs by department",
          "Which users haven't signed in recently?" >>

generateSuggestions(userQuery) ==
  LET query == toLowerCase(userQuery)
      has(w) == includes(query, w)
  IN IF has(<<"u","s","e","r">>) /\ has(<<"i","n","d","i","a">>) THEN
       << "Show me users from other countries",
          "What departments do India users work in?",
          "How many active users are there in total?" >>
     ELSE IF has(<<"d","e","p","a","r","t","m","e","n","t">>) THEN
       << "Which department has the most users?",
          "Show me user activity by department",
          "What licenses do IT department users have?" >>
     ELSE IF has(<<"l","i","c","e","n","s","e">>) THEN
       << "Show me license utilization rates",
          "Which licenses are most expensive?",
          "How many unlicensed users do we have?" >>
     ELSE IF has(<<"c","o","u","n","t","r","y">>)
             \/ has(<<"c","o","u","n","t","r","i","e","s">>) THEN
       << "Show me user distribution by country",
          "Which country has the most active users?",
          "What's the average activity per country?" >>
     ELSE IF has(<<"a","c","t","i","v","e">>) THEN
       << "Show me inactive users",
          "What makes a user active vs inactive?",
          "Show me user activity trends" >>
     ELSE
       << "How many users do we have by country?",
          "Show me license costs by department",
          "Which users haven't signed in recently?" >>

errorSuggestions ==
  << "Try asking a different question", "Check your connection",
     "Rephrase your query" >>

GreetingText ==
  <<"H","i","!"," ","I","'","m"," ","3","6","5"," ","T","u","n","e"," ","B","o","t","."," ","A","s","k"," ","m","e"," ","q","u","e","s","t","i","o","n","s"," ","a","b","o","u","t"," ","y","o","u","r"," ","M","i","c","r","o","s","o","f","t"," ","3","6","5"," ","d","a","t","a",".">>

FallbackText ==
  <<"S","o","r","r","y",","," ","I"," ","c","o","u","l","d","n","'","t"," ","p","r","o","c","e","s","s"," ","y","o","u","r"," ","r","e","q","u","e","s","t"," ","a","t"," ","t","h","e"," ","m","o","m","e","n","t",".">>

ErrorPrefix ==
  <<"S","o","r","r","y",","," ","I"," ","e","n","c","o","u","n","t","e","r","e","d"," ","a","n"," ","e","r","r","o","r",":"," ">>

----------------------------------------------------------------------------
\* The session store: getStoredData, saveToStorage and JSON.

Date(t) == [ms |-> t]
toISOString(d) == [iso |-> d.ms]
parseDate(s) == [ms |-> s.iso]

\* JSON.stringify of one message: a Date becomes its ISO string.
stringifyMessage(m) ==
  [f \in DOMAIN m |-> IF f = "timestamp" THEN toISOString(m[f]) ELSE m[f]]

\* The value localStorage holds under a key: text that parses to `value`.
JsonText(v) == [parses |-> TRUE, value |-> v]
CorruptText == [parses |-> FALSE, value |-> << >>]

saveToStorage(st, list) ==
  [st EXCEPT !.messages =
     Some(JsonText([i \in 1..Len(list) |-> stringifyMessage(list[i])]))]

\* restoreMessage without the reset of isTyping.
restoreMessageKeepsTyping(msg) ==
  [f \in DOMAIN msg |-> IF f = "timestamp" THEN parseDate(msg[f]) ELSE msg[f]]

restoreMessage(msg) ==
  [f \in DOMAIN msg \cup {"isTyping"} |->
     IF f = "timestamp" THEN parseDate(msg[f])
     ELSE IF f = "isTyping" THEN FALSE
     ELSE msg[f]]

getStoredData(st, defaultValue) ==
  IF st.messages = Null THEN defaultValue
  ELSE IF ~st.messages[1].parses THEN defaultValue
  ELSE LET parsed == st.messages[1].value
       IN [i \in 1..Len(parsed) |-> restoreMessage(parsed[i])]

IsTyping(m) == "isTyping" \in DOMAIN m /\ m.isTyping

NotTyping(m) == ~IsTyping(m)

\* filterNotTyping without the filter.
filterNotTypingKeepsAll(list) == list

\* messages.filter(m => !m.isTyping)
filterNotTyping(list) == SelectSeq(list, NotTyping)

\* lastN without the slice.
lastNKeepsAll(list, n) == list

\* list.slice(-n)
lastN(list, n) == SubSeq(list, Max(1, Len(list) - n + 1), Len(list))

\* saveEffect that writes nothing.
saveEffectSkipped(st, msgs) == st

\* The effect "save messages to localStorage whenever they change".
saveEffect(st, msgs) ==
  LET messagesToSave == filterNotTyping(msgs)
  IN IF Len(messagesToSave) > 0
       THEN saveToStorage(st, lastN(messagesToSave, StorageCap))
       ELSE st

----------------------------------------------------------------------------
\* Messages.

greetingMessage(id, t) ==
  [id |-> id, type |-> "bot", message |-> GreetingText, timestamp |-> Date(t),
   isTyping |-> FALSE]

userMessage(t, actualMessage) ==
  [id |-> t, type |-> "user", message |-> actualMessage, timestamp |-> Date(t)]

botMessage(t, actualMessage, botText, resultCount, data) ==
  [id |-> t + 1, type |-> "bot", message |-> botText, timestamp |-> Date(t),
   processing_time |-> data.processing_time, result_count |-> resultCount,
   success |-> data.success, isTyping |-> TRUE,
   suggestions |-> generateSuggestions(actualMessage)]

\* errorMessage that is not revealed.
errorMessageRevealed(t, error) ==
  [id |-> t + 1, type |-> "bot", message |-> ErrorPrefix \o error,
   timestamp |-> Date(t), success |-> FALSE, isTyping |-> FALSE,
   suggestions |-> errorSuggestions]

errorMessage(t, error) ==
  [id |-> t + 1, type |-> "bot", message |-> ErrorPrefix \o error,
   timestamp |-> Date(t), success |-> FALSE, isTyping |-> TRUE,
   suggestions |-> errorSuggestions]

\* newSessionId that does not depend on the clock or on the draw.
newSessionIdFixed(t, random) == [t |-> 0, random |-> 0]

newSessionId(t, random) == [t |-> t, random |-> random]

----------------------------------------------------------------------------
\* Rendering: the child components a commit of ChatBot mounts and unmounts.

\* renderTypewriters that starts every instance again at each commit.
renderTypewritersRestarts(msgs, old, t) ==
  [i \in {j \in 1..Len(msgs) : msgs[j].type = "bot" /\ IsTyping(msgs[j])} |->
     [text |-> msgs[i].message, displayText |-> << >>, currentIndex |-> 0,
      interval |-> IF msgs[i].message = << >> THEN Null
                   ELSE Some(t + TypewriterSpeed)]]

\* A TypewriterText is rendered for every bot message that is typing.  An
\* instance that stays mounted keeps its state (its effect depends on text
\* and speed only); a new one runs its effect, which starts the interval
\* unless the text is empty.
renderTypewriters(msgs, old, t) ==
  [i \in {j \in 1..Len(msgs) : msgs[j].type = "bot" /\ IsTyping(msgs[j])} |->
     IF i \in DOMAIN old THEN old[i]
     ELSE [text |-> msgs[i].message, displayText |-> << >>, currentIndex |-> 0,
           interval |-> IF msgs[i].message = << >> THEN Null
                        ELSE Some(t + TypewriterSpeed)]]

\* renderTable whose interval outlives the panel it was started for.
renderTableKeepsInterval(sd, sa, t) ==
  IF sd # Null /\ ~sa /\ Len(sd[1].data) > 0
    THEN Some([visibleRows |-> 0, isComplete |-> FALSE, currentRow |-> 0,
               maxRows |-> Min(Len(sd[1].data), TableMaxRows),
               interval |-> Some(t + TableRowInterval)])
    ELSE Some([visibleRows |-> 0, isComplete |-> FALSE, currentRow |-> 0,
               maxRows |-> 1,
               interval |-> Some(t + TableRowInterval)])

\* renderTable without the cap on the rows.
renderTableUncapped(sd, sa, t) ==
  IF sd # Null /\ ~sa /\ Len(sd[1].data) > 0
    THEN Some([visibleRows |-> 0, isComplete |-> FALSE, currentRow |-> 0,
               maxRows |-> Len(sd[1].data),
               interval |-> Some(t + TableRowInterval)])
    ELSE Null

\* An AnimatedTable is rendered while the sidebar holds rows and the
\* artifact view is off.  Every render of ChatBot hands it a new onComplete
\* function, a dependency of its effect: the effect is cleaned up and run
\* again, which resets the rows and starts a new interval.
renderTable(sd, sa, t) ==
  IF sd # Null /\ ~sa /\ Len(sd[1].data) > 0
    THEN Some([visibleRows |-> 0, isComplete |-> FALSE, currentRow |-> 0,
               maxRows |-> Min(Len(sd[1].data), TableMaxRows),
               interval |-> Some(t + TableRowInterval)])
    ELSE Null

----------------------------------------------------------------------------
\* Construction of the component from what localStorage holds.

\* initialMessages without the fallback to the greeting.
initialMessagesStoredOnly(st, t) == getStoredData(st, << >>)

initialMessages(st, t) ==
  LET stored == getStoredData(st, Null)
  IN IF Len(stored) > 0 THEN stored ELSE << greetingMessage(GreetingId, t) >>

\* initialSessionId that ignores the stored id.
initialSessionIdAlwaysNew(st, t, random) == newSessionId(t, random)

initialSessionId(st, t, random) ==
  IF st.session_id # Null THEN st.session_id[1] ELSE newSessionId(t, random)

\* The component state after the first render and its effects: the save
\* effect writes the initial log, then the suggestions effect reads it back.
mount(st, t, random) ==
  LET msgs == initialMessages(st, t)
      sid  == initialSessionId(st, t, random)
      st1  == saveEffect([st EXCEPT !.session_id = Some(sid)], msgs)
  IN [messages |-> msgs, sessionId |-> sid, storage |-> st1,
      showInitialSuggestions |-> ~(Len(getStoredData(st1, << >>)) > 1),
      typewriters |-> renderTypewriters(msgs, << >>, t)]

Constructed(c) ==
  /\ messages = c.messages
  /\ sessionId = c.sessionId
  /\ storage = c.storage
  /\ showInitialSuggestions = c.showInitialSuggestions
  /\ typewriters = c.typewriters
  /\ inputMessage = << >>
  /\ isLoading = FALSE
  /\ typingMessageId = Null
  /\ sidebarData = Null
  /\ sidebarTyping = FALSE
  /\ lastUserQuery = << >>
  /\ sidebarBehavior = "auto-decide"
  /\ showArtifact = FALSE
  /\ autoCloseTimer = Null
  /\ request = Null
  /\ timeouts = {}
  /\ table = Null
  /\ download = Null

----------------------------------------------------------------------------
\* Inputs.

Queries == { << >>, <<" ">>, <<"W","h","o"," ","i","s">>, <<"c","s","v">> }

Inputs == { <<"h","i">> }

BotTexts == { <<"F","o","u","n","d",".">> }

ResultSizes == {0, 1}

ErrorTexts == { <<"x">> }

RandomValues == {1}

\* How long the backend takes to answer, in milliseconds.
Latencies == {100}

Rows(n) == [i \in 1..n |-> i]

Responses ==
  { [message |-> txt, results |-> Rows(n), result_count |-> n,
     processing_time |-> 1, success |-> TRUE] :
      txt \in BotTexts, n \in ResultSizes }

EmptyStorage == [messages |-> Null, session_id |-> Null, sidebar |-> Null]

InitialStorages ==
  { EmptyStorage, [EmptyStorage EXCEPT !.messages = Some(CorruptText)] }

NothingBefore ==
  [arg |-> << >>, pos |-> 0, rows |-> 0, isLoading |-> FALSE,
   sidebarOpen |-> FALSE,
   tableRunning |-> FALSE, autoClosePending |-> FALSE]

Init ==
  /\ now = StartClock
  /\ \E st \in InitialStorages, random \in RandomValues :
       Constructed(mount(st, StartClock, random))
  /\ nextTimerId = 1
  /\ created = 0
  /\ actions = 0
  /\ lastOp = "mount"
  /\ before = NothingBefore

----------------------------------------------------------------------------
\* Timers.

\* clearTimeout that cancels nothing.
clearTimeoutKeeps(pending, handle) == pending

clearTimeout(pending, handle) ==
  IF handle # Null THEN {x \in pending : x.id # handle[1]} ELSE pending

Deadlines ==
  {x.at : x \in timeouts}
    \cup {request[i].due : i \in DOMAIN request}
    \cup {typewriters[i].interval[1] :
            i \in {j \in DOMAIN typewriters : typewriters[j].interval # Null}}
    \cup (IF table # Null /\ table[1].interval # Null
            THEN {table[1].interval[1]} ELSE {})

\* A callback runs when its deadline is the earliest pending one: time has
\* then passed up to that deadline.
Earliest(d) == d \in Deadlines /\ \A e \in Deadlines : d <= e

----------------------------------------------------------------------------
\* What an operation is given (the text submitted, the log position of the
\* TypewriterText whose interval fired, the number of rows of the reply)
\* and the state it finds.

Observed(arg, pos, rows) ==
  [arg |-> arg,
   pos |-> pos,
   rows |-> rows,
   isLoading |-> isLoading,
   sidebarOpen |-> sidebarData # Null,
   tableRunning |-> table # Null /\ table[1].interval # Null,
   autoClosePending |-> \E x \in timeouts : x.kind = "autoClose"]

----------------------------------------------------------------------------
\* sendMessage: the part that runs before the request is awaited.

\* rejected without the test of the busy flag.
rejectedBlankOnly(actualMessage, loading) == trim(actualMessage) = << >>

\* The guard of line 1164.
rejected(actualMessage, loading) == trim(actualMessage) = << >> \/ loading

sendMessage(messageToSend, latency) ==
  LET actualMessage ==
        IF messageToSend # Null /\ messageToSend[1] # << >>
          THEN messageToSend[1] ELSE inputMessage
  IN IF rejected(actualMessage, isLoading)
       THEN /\ actions < MaxActions
            /\ actions' = actions + 1
            /\ lastOp' = "sendMessage"
            /\ before' = Observed(actualMessage, 0, 0)
            /\ UNCHANGED << now, progVars, created >>
       ELSE LET msgs == Append(messages, userMessage(now, actualMessage))
            IN /\ created + 2 <= MaxCreated
               /\ created' = created + 1
               /\ inputMessage' = << >>
               /\ isLoading' = TRUE
               /\ showInitialSuggestions' = FALSE
               /\ lastUserQuery' = actualMessage
               /\ messages' = msgs
               /\ sidebarData' = Null
               /\ sidebarTyping' = FALSE
               /\ showArtifact' = FALSE
               /\ timeouts' = clearTimeout(timeouts, autoCloseTimer)
               /\ autoCloseTimer' = Null
               /\ request' = Some([message |-> actualMessage,
                                   session_id |-> sessionId,
                                   due |-> now + latency])
               /\ storage' = saveEffect(storage, msgs)
               /\ typewriters' = renderTypewriters(msgs, typewriters, now)
               /\ table' = renderTable(Null, FALSE, now)
               /\ lastOp' = "sendMessage"
               /\ before' = Observed(actualMessage, 0, 0)
               /\ UNCHANGED << download, now, sessionId, typingMessageId,
                               sidebarBehavior, nextTimerId, actions >>

\* sidebarShown with auto-decide visible for any number of rows.
sidebarShownAutoAlways(queryClassification, shouldShowArtifactResult, allResults) ==
  /\ Len(allResults) > 0
  /\ \/ queryClassification = "show-sidebar"
     \/ queryClassification = "auto-decide"
     \/ queryClassification = "brief-show"
     \/ shouldShowArtifactResult

\* sidebarShown by the category alone.
sidebarShownByCategory(queryClassification, shouldShowArtifactResult, allResults) ==
  /\ Len(allResults) > 0
  /\ \/ queryClassification = "show-sidebar"
     \/ (queryClassification = "auto-decide"
           /\ Len(allResults) <= AutoDecideMaxRows)
     \/ queryClassification = "brief-show"

\* sidebarShown without the test for rows.
sidebarShownWithoutRows(queryClassification, shouldShowArtifactResult, allResults) ==
  \/ queryClassification = "show-sidebar"
  \/ (queryClassification = "auto-decide"
        /\ Len(allResults) <= AutoDecideMaxRows)
  \/ queryClassification = "brief-show"
  \/ shouldShowArtifactResult

\* Whether the reply is shown in the sidebar (lines 1204-1211).
sidebarShown(queryClassification, shouldShowArtifactResult, allResults) ==
  /\ Len(allResults) > 0
  /\ \/ queryClassification = "show-sidebar"
     \/ (queryClassification = "auto-decide"
           /\ Len(allResults) <= AutoDecideMaxRows)
     \/ queryClassification = "brief-show"
     \/ shouldShowArtifactResult

\* `Query Results (${resultCount} records)`
panelTitle(resultCount) ==
  <<"Q","u","e","r","y"," ","R","e","s","u","l","t","s"," ","(">>
    \o String(resultCount) \o <<" ","r","e","c","o","r","d","s",")">>

\* autoCloseArmed for every reply that is shown.
autoCloseArmedAlways(shown, queryClassification) == shown

\* The timer a reply arms (lines 1224-1230).
autoCloseArmed(shown, queryClassification) ==
  shown /\ queryClassification = "brief-show"

\* finally that leaves the busy flag set.
finallyLoadingStuck == TRUE

\* The value finally gives isLoading (lines 1269-1271).
finallyLoading == FALSE

\* sendMessage: the reply of the backend has arrived.
sendMessageReply(data) ==
  /\ request # Null
  /\ Earliest(request[1].due)
  /\ now' = Max(now, request[1].due)
  /\ created < MaxCreated
  /\ created' = created + 1
  /\ LET actualMessage == request[1].message
         allResults == data.results
         resultCount == IF data.result_count # 0 THEN data.result_count
                        ELSE Len(allResults)
         queryClassification == classifyQuery(actualMessage)
         shouldShowArtifactResult == shouldShowArtifact(actualMessage, allResults)
         shown == sidebarShown(queryClassification, shouldShowArtifactResult,
                               allResults)
         armed == autoCloseArmed(shown, queryClassification)
         sd == IF shown
                 THEN Some([title |-> panelTitle(resultCount),
                            data |-> allResults, query |-> actualMessage,
                            behavior |-> queryClassification,
                            showArtifact |-> shouldShowArtifactResult])
                 ELSE Null
         sa == IF shown THEN shouldShowArtifactResult
               ELSE IF Len(allResults) > 0 THEN showArtifact
               ELSE FALSE
         botText == IF trim(data.message) = << >> THEN FallbackText
                    ELSE data.message
         msg == botMessage(now', actualMessage, botText, resultCount, data)
         msgs == Append(messages, msg)
     IN /\ sidebarData' = sd
        /\ sidebarBehavior' = IF shown THEN queryClassification
                              ELSE sidebarBehavior
        /\ showArtifact' = sa
        /\ sidebarTyping' = IF shown THEN FALSE ELSE sidebarTyping
        /\ timeouts' = IF armed
                         THEN timeouts \cup
                                {[id |-> nextTimerId, at |-> now' + AutoCloseDelay,
                                  kind |-> "autoClose"]}
                         ELSE timeouts
        /\ nextTimerId' = IF armed THEN nextTimerId + 1 ELSE nextTimerId
        /\ autoCloseTimer' = IF armed THEN Some(nextTimerId) ELSE autoCloseTimer
        /\ messages' = msgs
        /\ typingMessageId' = Some(msg.id)
        /\ isLoading' = finallyLoading
        /\ request' = Null
        /\ storage' = saveEffect(storage, msgs)
        /\ typewriters' = renderTypewriters(msgs, typewriters, now')
        /\ table' = renderTable(sd, sa, now')
        /\ lastOp' = "sendMessage:reply"
        /\ before' = Observed(<< >>, 0, Len(data.results))
        /\ UNCHANGED << download, inputMessage, sessionId, showInitialSuggestions,
                        lastUserQuery, actions >>

\* sendMessage: the request failed (catch and finally).
sendMessageCatch(error) ==
  /\ request # Null
  /\ Earliest(request[1].due)
  /\ now' = Max(now, request[1].due)
  /\ created < MaxCreated
  /\ created' = created + 1
  /\ LET msg == errorMessage(now', error)
         msgs == Append(messages, msg)
     IN /\ messages' = msgs
        /\ typingMessageId' = Some(msg.id)
        /\ isLoading' = finallyLoading
        /\ request' = Null
        /\ storage' = saveEffect(storage, msgs)
        /\ typewriters' = renderTypewriters(msgs, typewriters, now')
        /\ table' = renderTable(sidebarData, showArtifact, now')
        /\ lastOp' = "sendMessage:catch"
        /\ before' = Observed(<< >>, 0, 0)
        /\ UNCHANGED << download, inputMessage, sessionId, sidebarData,
                        sidebarTyping, showInitialSuggestions, lastUserQuery,
                        sidebarBehavior, showArtifact, autoCloseTimer, timeouts,
                        nextTimerId, actions >>

----------------------------------------------------------------------------
\* TypewriterText.

\* handleTypingComplete is created once, by useRef on the first render: the
\* sidebarData it reads is the one of that render, the initial state.
handleTypingCompleteSidebarData == Null

markComplete(msgs, messageId) ==
  [i \in 1..Len(msgs) |->
     IF msgs[i].id = messageId
       THEN [f \in DOMAIN msgs[i] \cup {"isTyping"} |->
               IF f = "isTyping" THEN FALSE ELSE msgs[i][f]]
       ELSE msgs[i]]

\* The interval callback of the TypewriterText at log position i.  Its last
\* tick stops the interval and calls handleTypingComplete(message.id).
typewriterTick(i) ==
  /\ i \in DOMAIN typewriters
  /\ typewriters[i].interval # Null
  /\ Earliest(typewriters[i].interval[1])
  /\ now' = Max(now, typewriters[i].interval[1])
  /\ LET tw == typewriters[i]
     IN IF tw.currentIndex < Len(tw.text)
          THEN /\ typewriters' =
                    [typewriters EXCEPT ![i] =
                       [tw EXCEPT !.displayText = slice(tw.text, 0, tw.currentIndex + 1),
                                  !.currentIndex = tw.currentIndex + 1,
                                  !.interval = Some(tw.interval[1] + TypewriterSpeed)]]
               /\ lastOp' = "typewriterTick"
               /\ before' = Observed(<< >>, i, 0)
               /\ UNCHANGED << download, storage, messages, inputMessage, isLoading,
                               sessionId, typingMessageId, sidebarData,
                               sidebarTyping, showInitialSuggestions,
                               lastUserQuery, sidebarBehavior, showArtifact,
                               autoCloseTimer, request, timeouts, nextTimerId,
                               table, actions, created >>
          ELSE LET msgs == markComplete(messages, messages[i].id)
                   sd == handleTypingCompleteSidebarData
                   delayed == sd # Null /\ Len(sd[1].data) > 0
               IN /\ typingMessageId' = Null
                  /\ messages' = msgs
                  /\ timeouts' =
                       IF delayed
                         THEN timeouts \cup
                                {[id |-> nextTimerId, at |-> now' + TableStartDelay,
                                  kind |-> "sidebarTyping"]}
                         ELSE timeouts
                  /\ nextTimerId' = IF delayed THEN nextTimerId + 1
                                    ELSE nextTimerId
                  /\ storage' = saveEffect(storage, msgs)
                  /\ typewriters' =
                       renderTypewriters(msgs,
                         [typewriters EXCEPT ![i] = [tw EXCEPT !.interval = Null]],
                         now')
                  /\ table' = renderTable(sidebarData, showArtifact, now')
                  /\ lastOp' = "handleTypingComplete"
                  /\ before' = Observed(<< >>, i, 0)
                  /\ UNCHANGED << download, inputMessage, isLoading, sessionId,
                                  sidebarData, sidebarTyping,
                                  showInitialSuggestions, lastUserQuery,
                                  sidebarBehavior, showArtifact, autoCloseTimer,
                                  request, actions, created >>

----------------------------------------------------------------------------
\* AnimatedTable.

\* The interval callback of the table.  Its last tick stops the interval
\* and calls onComplete, which is setSidebarTyping(false): ChatBot renders
\* again only if that changes its state.
tableTick ==
  /\ table # Null
  /\ table[1].interval # Null
  /\ Earliest(table[1].interval[1])
  /\ now' = Max(now, table[1].interval[1])
  /\ LET tb == table[1]
     IN IF tb.currentRow < tb.maxRows
          THEN /\ table' = Some([tb EXCEPT !.currentRow = tb.currentRow + 1,
                                           !.visibleRows = tb.currentRow + 1,
                                           !.interval = Some(tb.interval[1] + TableRowInterval)])
               /\ sidebarTyping' = sidebarTyping
               /\ lastOp' = "tableTick"
               /\ before' = Observed(<< >>, 0, 0)
          ELSE /\ sidebarTyping' = FALSE
               /\ table' = IF sidebarTyping
                             THEN renderTable(sidebarData, showArtifact, now')
                             ELSE Some([tb EXCEPT !.isComplete = TRUE,
                                                  !.interval = Null])
               /\ lastOp' = "tableComplete"
               /\ before' = Observed(<< >>, 0, 0)
  /\ UNCHANGED << download, storage, messages, inputMessage, isLoading, sessionId,
                  typingMessageId, sidebarData, showInitialSuggestions,
                  lastUserQuery, sidebarBehavior, showArtifact, autoCloseTimer,
                  request, timeouts, nextTimerId, typewriters,
                  actions, created >>

----------------------------------------------------------------------------
\* Timeouts and the sidebar controls.

\* A setTimeout callback runs: the auto-close of a brief-show reply, or the
\* delayed start handleTypingComplete schedules.
timeoutFire(x) ==
  /\ x \in timeouts
  /\ Earliest(x.at)
  /\ now' = Max(now, x.at)
  /\ timeouts' = timeouts \ {x}
  /\ IF x.kind = "autoClose"
       THEN /\ sidebarData' = Null
            /\ showArtifact' = FALSE
            /\ sidebarTyping' = sidebarTyping
            /\ table' = IF sidebarData # Null \/ showArtifact
                          THEN renderTable(Null, FALSE, now') ELSE table
            /\ lastOp' = "autoClose"
            /\ before' = Observed(<< >>, 0, 0)
       ELSE /\ sidebarTyping' = TRUE
            /\ table' = IF ~sidebarTyping
                          THEN renderTable(sidebarData, showArtifact, now')
                          ELSE table
            /\ lastOp' = "sidebarTypingStart"
            /\ before' = Observed(<< >>, 0, 0)
            /\ UNCHANGED << sidebarData, showArtifact >>
  /\ UNCHANGED << download, storage, messages, inputMessage, isLoading, sessionId,
                  typingMessageId, showInitialSuggestions, lastUserQuery,
                  sidebarBehavior, autoCloseTimer, request, nextTimerId,
                  typewriters, actions, created >>

\* The close button of the sidebar header.
closeSidebar ==
  /\ sidebarData # Null
  /\ sidebarData' = Null
  /\ sidebarTyping' = FALSE
  /\ showArtifact' = FALSE
  /\ timeouts' = clearTimeout(timeouts, autoCloseTimer)
  /\ autoCloseTimer' = Null
  /\ table' = renderTable(Null, FALSE, now)
  /\ lastOp' = "closeSidebar"
  /\ before' = Observed(<< >>, 0, 0)
  /\ UNCHANGED << download, now, storage, messages, inputMessage, isLoading, sessionId,
                  typingMessageId, showInitialSuggestions, lastUserQuery,
                  sidebarBehavior, request, nextTimerId, typewriters,
                  actions, created >>

\* The artifact toggle rendered for every payload.
toggleRenderedAlways(sd) == sd # Null

\* The artifact toggle is rendered for a payload whose showArtifact is set
\* (line 1307).
toggleRendered(sd) == sd # Null /\ sd[1].showArtifact

\* The artifact toggle is pressed.
toggleArtifact ==
  /\ toggleRendered(sidebarData)
  /\ actions < MaxActions
  /\ actions' = actions + 1
  /\ showArtifact' = ~showArtifact
  /\ table' = renderTable(sidebarData, ~showArtifact, now)
  /\ lastOp' = "toggleArtifact"
  /\ before' = Observed(<< >>, 0, 0)
  /\ UNCHANGED << download, now, storage, messages, inputMessage, isLoading, sessionId,
                  typingMessageId, sidebarData, sidebarTyping,
                  showInitialSuggestions, lastUserQuery, sidebarBehavior,
                  autoCloseTimer, request, timeouts, nextTimerId, typewriters, created >>

\* onChange of the textarea, which is disabled while a request is awaited.
editInput(text) ==
  /\ ~isLoading
  /\ text # inputMessage
  /\ actions < MaxActions
  /\ actions' = actions + 1
  /\ inputMessage' = text
  /\ table' = renderTable(sidebarData, showArtifact, now)
  /\ lastOp' = "editInput"
  /\ before' = Observed(<< >>, 0, 0)
  /\ UNCHANGED << download, now, storage, messages, isLoading, sessionId,
                  typingMessageId, sidebarData, sidebarTyping,
                  showInitialSuggestions, lastUserQuery, sidebarBehavior,
                  showArtifact, autoCloseTimer, request, timeouts, nextTimerId,
                  typewriters, created >>

----------------------------------------------------------------------------
\* Reload and reset.

ConstructedNext(c) ==
  /\ messages' = c.messages
  /\ sessionId' = c.sessionId
  /\ storage' = c.storage
  /\ showInitialSuggestions' = c.showInitialSuggestions
  /\ typewriters' = c.typewriters
  /\ inputMessage' = << >>
  /\ isLoading' = FALSE
  /\ typingMessageId' = Null
  /\ sidebarData' = Null
  /\ sidebarTyping' = FALSE
  /\ lastUserQuery' = << >>
  /\ sidebarBehavior' = "auto-decide"
  /\ showArtifact' = FALSE
  /\ autoCloseTimer' = Null
  /\ request' = Null
  /\ timeouts' = {}
  /\ table' = Null
  /\ download' = Null

\* The page is reloaded: its timers and its pending request are gone, and
\* the component is constructed again from localStorage.
reload ==
  /\ actions < MaxActions
  /\ actions' = actions + 1
  /\ \E random \in RandomValues : ConstructedNext(mount(storage, now, random))
  /\ lastOp' = "reload"
  /\ before' = Observed(<< >>, 0, 0)
  /\ UNCHANGED << now, nextTimerId, created >>

\* Math.random() in clearChatHistory: the generator does not repeat the
\* draw that made the current session id.
nextRandoms == {sessionId.random + 1}

\* clearChatHistory, confirmed: the keys are removed, a new session id is
\* stored and the page reloads.  Whether the render that setMessages asked
\* for, and with it the save effect, still runs before the page is torn
\* down is up to the runtime.
clearChatHistory ==
  /\ actions < MaxActions
  /\ actions' = actions + 1
  /\ \E random \in nextRandoms, saved \in BOOLEAN :
       LET st1 == [EmptyStorage EXCEPT
                     !.session_id = Some(newSessionId(now, random))]
           st2 == IF saved
                    THEN saveEffect(st1, << greetingMessage(now, now) >>)
                    ELSE st1
       IN ConstructedNext(mount(st2, now, random))
  /\ lastOp' = "clearChatHistory"
  /\ before' = Observed(<< >>, 0, 0)
  /\ UNCHANGED << now, nextTimerId, created >>

----------------------------------------------------------------------------

\* The user is sampled on the grid of the table's row interval: clicks, key
\* strokes and reloads happen at those instants, before or after the
\* callbacks that are due then.
UserTurn == (now - StartClock) % TableRowInterval = 0

\* Time passes, with no callback due, up to the next instant of that grid.
timePasses ==
  LET next == now + TableRowInterval - ((now - StartClock) % TableRowInterval)
  IN /\ ~UserTurn
     /\ \A d \in Deadlines : next <= d
     /\ now' = next
     /\ lastOp' = "timePasses"
     /\ before' = Observed(<< >>, 0, 0)
     /\ UNCHANGED << progVars, created, actions >>

Next ==
  \/ UserTurn /\ \E q \in Queries, latency \in Latencies : sendMessage(Some(q), latency)
  \/ \E data \in Responses : sendMessageReply(data)
  \/ \E error \in ErrorTexts : sendMessageCatch(error)
  \/ \E i \in DOMAIN typewriters : typewriterTick(i)
  \/ tableTick
  \/ \E x \in timeouts : timeoutFire(x)
  \/ UserTurn /\ closeSidebar
  \/ UserTurn /\ toggleArtifact
  \/ UserTurn /\ \E text \in Inputs : editInput(text)
  \/ UserTurn /\ reload
  \/ UserTurn /\ clearChatHistory
  \/ timePasses

Spec == Init /\ [][Next]_vars

----------------------------------------------------------------------------
\* A browser whose localStorage holds a long history of earlier sessions.

\* The log an earlier session left: the greeting, then queries and their
\* replies, all revealed, created before StartClock.
oldMessage(i) ==
  IF i = 1 THEN greetingMessage(GreetingId, 0)
  ELSE IF i % 2 = 0 THEN userMessage(4 * i, <<"W","h","o"," ","i","s">>)
  ELSE [botMessage(4 * i - 2, <<"W","h","o"," ","i","s">>, <<"F","o","u","n","d",".">>, 0,
                   [processing_time |-> 1, success |-> TRUE])
          EXCEPT !.isTyping = FALSE]

oldLog(k) == [i \in 1..k |-> oldMessage(i)]

LongStorages ==
  { saveToStorage([EmptyStorage EXCEPT !.session_id = Some(newSessionId(0, 1))],
                  oldLog(k)) : k \in {StorageCap - 1, StorageCap} }

InitLong ==
  /\ now = StartClock
  /\ \E st \in LongStorages, random \in RandomValues :
       Constructed(mount(st, StartClock, random))
  /\ nextTimerId = 1
  /\ created = 0
  /\ actions = 0
  /\ lastOp = "mount"
  /\ before = NothingBefore

\* The backend finds no rows: no sidebar is shown.
NoRowResponses == {data \in Responses : Len(data.results) = 0}

LongQueries == { <<"W","h","o"," ","i","s">> }

NextLong ==
  \/ UserTurn /\ \E q \in LongQueries, latency \in Latencies : sendMessage(Some(q), latency)
  \/ \E data \in NoRowResponses : sendMessageReply(data)
  \/ \E i \in DOMAIN typewriters : typewriterTick(i)
  \/ UserTurn /\ reload
  \/ UserTurn /\ clearChatHistory
  \/ timePasses

SpecLong == InitLong /\ [][NextLong]_vars

----------------------------------------------------------------------------
\* Properties.

\* Log positions of the messages that are still being revealed.
Revealing == {i \in 1..Len(messages) : IsTyping(messages[i])}

\* The message list localStorage holds, as parsed JSON.
StoredMessages ==
  IF storage.messages # Null /\ storage.messages[1].parses
    THEN storage.messages[1].value ELSE << >>

AutoClosePending == \E x \in timeouts : x.kind = "autoClose"

\* The last operation was a call of sendMessage that passed its guard.
Accepted ==
  lastOp = "sendMessage" /\ trim(before.arg) # << >> /\ ~before.isLoading

\* C1: within a response cycle the table shows no row before the text of
\* the cycle's assistant message (the last message of the log while the
\* payload of that reply is in the sidebar) has been revealed completely.
C1_TableAfterText ==
  (table # Null /\ table[1].visibleRows > 0)
    => ~IsTyping(messages[Len(messages)])

\* C2: at most one message of the log is being revealed.
C2_AtMostOneRevealing == Cardinality(Revealing) <= 1

\* C3: once a new query is accepted no timer of an earlier cycle fires: a
\* text tick belongs to a message no query follows, and a table tick or an
\* auto-close finds the payload of the latest query and no request pending.
C3_PreviousTimersCancelled ==
  /\ lastOp \in {"typewriterTick", "handleTypingComplete"}
       => \A j \in (before.pos + 1)..Len(messages) : messages[j].type # "user"
  /\ lastOp \in {"tableTick", "tableComplete"}
       => /\ ~before.isLoading
          /\ sidebarData # Null
          /\ sidebarData[1].query = lastUserQuery
  /\ lastOp = "autoClose" => ~before.isLoading /\ before.sidebarOpen

\* C4: a call of sendMessage that passes the guard leaves the sidebar
\* closed (no payload, artifact view off), no auto-close timer pending and
\* no table mounted, with the request of the new cycle issued.
C4_AcceptClosesSidebar ==
  Accepted =>
    /\ sidebarData = Null
    /\ ~showArtifact
    /\ ~AutoClosePending
    /\ autoCloseTimer = Null
    /\ table = Null
    /\ request # Null

\* An accepted query found the sidebar open, its table being revealed and
\* its auto-close timer pending.
C4_Witness ==
  /\ Accepted
  /\ before.sidebarOpen
  /\ before.tableRunning
  /\ before.autoClosePending
  /\ sidebarData = Null

\* C5, as stated: the auto-close timer is started when the table has been
\* revealed completely, so none is pending before that.
C5_TimerStartsAtOpen ==
  AutoClosePending => (table # Null /\ table[1].isComplete)

\* C5, amended: the auto-close timer of a brief-show panel is started by
\* the reply that attaches the payload and is pending for as long as that
\* panel is shown; it closes the panel exactly AutoCloseDelay after the
\* reply (the timestamp of the reply's message, the last of the log).
C5_TimerStartsAtReply ==
  /\ AutoClosePending
       <=> (sidebarData # Null /\ sidebarData[1].behavior = "brief-show")
  /\ \A x \in timeouts :
       x.kind = "autoClose"
         => /\ x.at = messages[Len(messages)].timestamp.ms + AutoCloseDelay
            /\ now <= x.at
  /\ lastOp = "autoClose"
       => /\ sidebarData = Null
          /\ ~showArtifact
          /\ now = messages[Len(messages)].timestamp.ms + AutoCloseDelay

\* The auto-close timer has fired on an open panel.
C5_Witness ==
  lastOp = "autoClose" /\ before.sidebarOpen /\ sidebarData = Null

\* C6: no message localStorage holds is being revealed.
C6_NoRevealingStored ==
  \A i \in 1..Len(StoredMessages) : ~IsTyping(StoredMessages[i])

\* A reply has been appended and saved while its message is being
\* revealed: the stored list is shorter than the log.
C6_Witness ==
  /\ lastOp = "sendMessage:reply"
  /\ Revealing # {}
  /\ Len(StoredMessages) >= 2
  /\ Len(StoredMessages) < Len(messages)

\* The messages of the log that are not being revealed, as JSON.stringify
\* writes the latest n of them.
LatestFinalized(msgs, n) ==
  LET kept == SelectSeq(msgs, NotTyping)
      from == Max(0, Len(kept) - n)
  IN [i \in 1..(Len(kept) - from) |-> stringifyMessage(kept[from + i])]

\* C7: localStorage never holds more than StorageCap messages, and when the
\* log has more finalized messages than that it holds exactly the latest
\* StorageCap of them, in the order of the log.
C7_StoredCapped ==
  /\ Len(StoredMessages) <= StorageCap
  /\ Len(SelectSeq(messages, NotTyping)) > StorageCap
       => StoredMessages = LatestFinalized(messages, StorageCap)

\* The log holds two finalized messages more than the cap, localStorage
\* the latest StorageCap of them.
C7_Witness ==
  /\ Len(SelectSeq(messages, NotTyping)) = StorageCap + 2
  /\ Len(StoredMessages) = StorageCap
  /\ StoredMessages[StorageCap].id = messages[Len(messages)].id

\* The (type, text) pairs of a log.
Pairs(list) == [i \in 1..Len(list) |-> << list[i].type, list[i].message >>]

\* C8: a reload of a log of at most StorageCap messages, none of them being
\* revealed, constructs a log with the same (type, text) pairs in the same
\* order, every message with isTyping = false.
C8_RoundTrip ==
  [][(lastOp' = "reload" /\ Revealing = {} /\ Len(messages) <= StorageCap)
       => /\ Pairs(messages') = Pairs(messages)
          /\ \A i \in 1..Len(messages') :
               "isTyping" \in DOMAIN messages'[i] /\ ~messages'[i].isTyping]_vars

\* A reload has restored every message sendMessage created: a query and
\* its reply, or more.
C8_Witness ==
  /\ lastOp = "reload"
  /\ created >= 2
  /\ Len(messages) = created + 1
  /\ \E i \in 1..Len(messages) : messages[i].type = "user"

\* C9, as stated: localStorage is written only once the reveal of an
\* assistant message is complete, never while a request is pending or a
\* message is being revealed.
C9_WritesOnlyAfterReveal ==
  [][storage'.messages # storage.messages
       => (request' = Null /\ Revealing' = {})]_vars

\* C9, amended: the stored list changes only in a step that changes the
\* log, and every step that changes the log, with a request pending or a
\* message being revealed as well, leaves in localStorage the latest
\* StorageCap messages of the log that are not being revealed.
C9_WritesOnLogChange ==
  [][/\ storage'.messages # storage.messages => messages' # messages
     /\ messages' # messages
          => StoredMessages' = LatestFinalized(messages', StorageCap)]_vars

\* The query just accepted is in localStorage while its request is pending
\* and the previous reply is still being revealed.
C9_Witness ==
  /\ Accepted
  /\ request # Null
  /\ Revealing # {}
  /\ StoredMessages[Len(StoredMessages)].type = "user"
  /\ StoredMessages[Len(StoredMessages)].id = now

\* C10: a call of sendMessage whose text is empty or blank, or that finds
\* a request pending, changes nothing: log, flags, sidebar, timers, request
\* and localStorage stay as they are.
C10_RejectedNoChange ==
  [][(lastOp' = "sendMessage" /\ (trim(before'.arg) = << >> \/ isLoading))
       => UNCHANGED progVars]_vars

\* sendMessage has returned at its guard for a query submitted while a
\* request is pending.
C10_Witness ==
  /\ lastOp = "sendMessage"
  /\ before.isLoading
  /\ trim(before.arg) # << >>
  /\ request # Null

\* The operations that end a pending request: its reply, its failure and
\* the teardown of the page.
RequestEnds ==
  {"sendMessage:reply", "sendMessage:catch", "reload", "clearChatHistory"}

\* C11: at most one request is pending: the busy flag is set exactly while
\* a request is pending, a call of sendMessage that finds one pending
\* neither replaces it nor extends the log, and a pending request ends
\* only with its reply, its failure or the teardown of the page.
C11_OneRequestOutstanding ==
  [][/\ (request' # Null) <=> isLoading'
     /\ (request # Null /\ lastOp' = "sendMessage")
          => (request' = request /\ messages' = messages)
     /\ (request # Null /\ request' # request)
          => (lastOp' \in RequestEnds /\ request' = Null)]_vars

\* sendMessage was called while the only query of the log awaits its
\* reply: the log holds the greeting and that query, nothing more.
C11_Witness ==
  /\ lastOp = "sendMessage"
  /\ before.isLoading
  /\ request # Null
  /\ created = 1
  /\ Len(messages) = 2
  /\ messages[2].type = "user"

----------------------------------------------------------------------------
\* One page, from construction on, with the event loop running every
\* callback that is due and every request settling.

\* The callbacks of the event loop: timers and the settling of the request.
Callbacks ==
  \/ \E data \in Responses : sendMessageReply(data)
  \/ \E error \in ErrorTexts : sendMessageCatch(error)
  \/ \E i \in DOMAIN typewriters : typewriterTick(i)
  \/ tableTick
  \/ \E x \in timeouts : timeoutFire(x)
  \/ timePasses

NextLive ==
  \/ UserTurn /\ \E q \in LongQueries, latency \in Latencies : sendMessage(Some(q), latency)
  \/ \E data \in Responses : sendMessageReply(data)
  \/ \E error \in ErrorTexts : sendMessageCatch(error)
  \/ \E i \in DOMAIN typewriters : typewriterTick(i)
  \/ tableTick
  \/ \E x \in timeouts : timeoutFire(x)
  \/ timePasses

SpecLive == Init /\ [][NextLive]_vars /\ WF_vars(Callbacks)

\* The request of the last query has settled: the log ends with the query
\* and one assistant message after it, and the busy flag is cleared.
Settled ==
  /\ lastOp \in {"sendMessage:reply", "sendMessage:catch"}
  /\ request = Null
  /\ ~isLoading
  /\ Len(messages) >= 2
  /\ messages[Len(messages) - 1].type = "user"
  /\ messages[Len(messages) - 1].message = lastUserQuery
  /\ messages[Len(messages)].type = "bot"

\* C13: every accepted query leads to a state in which its request has
\* settled, by a reply or by a failure, with one assistant message appended
\* after the query and the busy flag cleared.
C13_AcceptedQuerySettles == (request # Null) ~> Settled

\* The request of a second query has settled: after the first cycle the
\* controller accepted a further query and answered it.
C13_Witness == Settled /\ created = 4

----------------------------------------------------------------------------

\* localStorage holds no messages, or text JSON.parse rejects.
Unreadable(st) == st.messages = Null \/ ~st.messages[1].parses

\* C14: constructed from a localStorage whose messages are absent or do
\* not parse, the log is the default greeting alone, an assistant message
\* that is not being revealed; nothing is pending, the greeting has
\* replaced the stored text and a query can be submitted.
C14_UnreadableGivesGreeting ==
  /\ \A st \in InitialStorages :
       /\ Unreadable(st)
       /\ mount(st, now, 1).messages = << greetingMessage(GreetingId, now) >>
  /\ lastOp = "mount" =>
       /\ messages = << greetingMessage(GreetingId, now) >>
       /\ messages[1].type = "bot"
       /\ messages[1].message = GreetingText
       /\ ~IsTyping(messages[1])
       /\ typewriters = << >>
       /\ StoredMessages = << stringifyMessage(messages[1]) >>
       /\ ~isLoading
       /\ request = Null
       /\ sidebarData = Null
       /\ \A q \in LongQueries : ~rejected(q, isLoading)

\* The page has been constructed from such a localStorage and shows the
\* greeting.
C14_Witness ==
  /\ lastOp = "mount"
  /\ Len(messages) = 1
  /\ messages[1].id = GreetingId
  /\ showInitialSuggestions

\* C15: a confirmed clearChatHistory leaves, once the page has reloaded, a
\* new session id in the component and in localStorage, no sidebar key, a
\* log that is the greeting alone, not being revealed, no payload in the
\* sidebar, and nothing of the earlier history in localStorage.
C15_ResetClearsSession ==
  [][lastOp' = "clearChatHistory" =>
       /\ sessionId' # sessionId
       /\ storage'.session_id = Some(sessionId')
       /\ storage'.session_id # storage.session_id
       /\ storage'.sidebar = Null
       /\ Len(messages') = 1
       /\ messages'[1].type = "bot"
       /\ messages'[1].message = GreetingText
       /\ ~IsTyping(messages'[1])
       /\ StoredMessages' = << stringifyMessage(messages'[1]) >>
       /\ sidebarData' = Null
       /\ request' = Null
       /\ timeouts' = {}]_vars

\* The history of a query and its reply has been cleared.
C15_Witness ==
  /\ lastOp = "clearChatHistory"
  /\ created >= 2
  /\ Len(messages) = 1
  /\ Len(StoredMessages) = 1
  /\ sessionId.t > StartClock

\* C16: the session id changes in no step but a confirmed clearChatHistory;
\* it is the id localStorage holds, and a pending request carries it.
C16_SessionIdStable ==
  [][/\ sessionId' # sessionId => lastOp' = "clearChatHistory"
     /\ storage'.session_id = Some(sessionId')
     /\ request' # Null => request'[1].session_id = sessionId']_vars

\* After a query, its reply and a later reload the session id is still the
\* one generated when the page was first constructed.
C16_Witness ==
  /\ lastOp = "reload"
  /\ created >= 2
  /\ now > StartClock
  /\ sessionId = newSessionId(StartClock, 1)

----------------------------------------------------------------------------
\* The panel decision of a reply (lines 1200-1237): queries of every
\* classifier category, with and without an artifact keyword, in mixed letter
\* case, and replies on both sides of the two row thresholds.

PanelQueries ==
  { <<"H","o","w"," ","m","a","n","y">>,
    <<"W","h","o"," ","i","s">>,
    <<"L","i","s","t">>,
    <<"h","i">>,
    <<"c","s","v">>,
    <<"H","O","W"," ","M","A","N","Y"," ","h","i","g","h","e","s","t"," ","l","i","s","t"," ","C","S","V">>,
    <<"w","h","o"," ","i","s"," ","o","n"," ","t","h","e"," ","l","i","s","t">> }

PanelResultSizes ==
  {0, 1, AutoDecideMaxRows, AutoDecideMaxRows + 1, ArtifactMinRows + 1}

PanelResponses ==
  { [message |-> txt, results |-> Rows(n), result_count |-> n,
     processing_time |-> 1, success |-> TRUE] :
      txt \in BotTexts, n \in PanelResultSizes }

\* The first exchange of the page draws from the panel inputs, a later one
\* from the smaller sets (created counts the messages the page has appended).
QueriesAt(n) == IF n = 0 THEN PanelQueries ELSE LongQueries

ResponsesAt(n) == IF n = 1 THEN PanelResponses ELSE Responses

NextPanel ==
  \/ UserTurn /\ \E q \in QueriesAt(created), latency \in Latencies : sendMessage(Some(q), latency)
  \/ \E data \in ResponsesAt(created) : sendMessageReply(data)
  \/ \E i \in DOMAIN typewriters : typewriterTick(i)
  \/ tableTick
  \/ \E x \in timeouts : timeoutFire(x)
  \/ UserTurn /\ closeSidebar
  \/ UserTurn /\ toggleArtifact
  \/ timePasses

SpecPanel == Init /\ [][NextPanel]_vars

\* The reply that came last found these rows for this query.
LastReplyShown ==
  LET rows == Rows(before.rows)
      category == classifyQuery(lastUserQuery)
  IN /\ before.rows >= 1
     /\ \/ category \in {"show-sidebar", "brief-show"}
        \/ category = "auto-decide" /\ before.rows <= 10
        \/ shouldShowArtifact(lastUserQuery, rows)

\* C17: the panel holds a payload only if the reply that came last had at
\* least one result row and either its category is visible (show-sidebar,
\* brief-show, auto-decide with at most 10 rows) or the query is
\* artifact-eligible; the payload is that reply's (its query, its rows, the
\* bot message at the end of the log); right after any other reply the
\* panel holds no payload.
C17_PayloadOnlyIfShown ==
  /\ sidebarData # Null =>
       LET sd == sidebarData[1]
           n == Len(messages)
           category == classifyQuery(sd.query)
       IN /\ Len(sd.data) >= 1
          /\ \/ category \in {"show-sidebar", "brief-show"}
             \/ category = "auto-decide" /\ Len(sd.data) <= 10
             \/ shouldShowArtifact(sd.query, sd.data)
          /\ sd.query = lastUserQuery
          /\ request = Null
          /\ n >= 2
          /\ messages[n].type = "bot"
          /\ messages[n].success
          /\ messages[n].result_count = Len(sd.data)
          /\ messages[n - 1].type = "user"
          /\ messages[n - 1].message = sd.query
  /\ (lastOp = "sendMessage:reply" /\ ~LastReplyShown) => sidebarData = Null

C17_Witness ==
  /\ lastOp = "sendMessage:reply"
  /\ Len(messages) = 5
  /\ sidebarData = Null
  /\ before.rows = 0
  /\ messages[3].result_count = AutoDecideMaxRows + 1
  /\ classifyQuery(messages[2].message) = "show-sidebar"

\* The reply that came last is selected by its category alone, or by
\* artifact eligibility alone.
LastReplySelected ==
  \/ classifyQuery(lastUserQuery) \in {"show-sidebar", "brief-show"}
  \/ shouldShowArtifact(lastUserQuery, Rows(before.rows))

\* C18 as stated: after every successful reply whose category is show-sidebar
\* or brief-show, or whose query and rows are artifact-eligible, the panel
\* holds a payload.
C18_SelectedIsShown ==
  (lastOp = "sendMessage:reply" /\ LastReplySelected) => sidebarData # Null

\* C18: after every successful reply with at least one result row whose
\* category is show-sidebar or brief-show, or whose query and rows are
\* artifact-eligible, the panel holds the payload of that reply; a selected
\* reply with no rows leaves the panel without a payload.
C18_SelectedWithRowsIsShown ==
  (lastOp = "sendMessage:reply" /\ LastReplySelected) =>
    IF before.rows >= 1
      THEN /\ sidebarData # Null
           /\ sidebarData[1].query = lastUserQuery
           /\ Len(sidebarData[1].data) = before.rows
           /\ sidebarData[1].behavior = classifyQuery(lastUserQuery)
           /\ sidebarData[1].showArtifact
                = shouldShowArtifact(lastUserQuery, Rows(before.rows))
           /\ showArtifact = sidebarData[1].showArtifact
      ELSE sidebarData = Null /\ ~showArtifact

C18_Witness ==
  /\ lastOp = "sendMessage:reply"
  /\ classifyQuery(lastUserQuery) = "no-sidebar"
  /\ shouldShowArtifact(lastUserQuery, << >>)
  /\ before.rows = 1
  /\ sidebarData # Null
  /\ sidebarData[1].behavior = "no-sidebar"

\* Whether the lower-cased query contains a phrase of the set.
Matches(userQuery, phrases) == includesAny(toLowerCase(userQuery), phrases)

\* The category the order simple, brief-show, detailed gives a query.
FirstMatch(userQuery) ==
  CASE Matches(userQuery, simpleQueries) -> "no-sidebar"
    [] /\ ~Matches(userQuery, simpleQueries)
       /\ Matches(userQuery, briefShowQueries) -> "brief-show"
    [] /\ ~Matches(userQuery, simpleQueries)
       /\ ~Matches(userQuery, briefShowQueries)
       /\ Matches(userQuery, detailedQueries) -> "show-sidebar"
    [] OTHER -> "auto-decide"

\* C19: classifyQuery tests the lower-cased query against the simple, the
\* brief-show and the detailed phrases in that order and the first set that
\* matches wins: a query containing "how many" in any letter case is
\* no-sidebar even when it also contains brief-show and detailed phrases, a
\* query with brief-show and detailed phrases is brief-show, a query with
\* no phrase is auto-decide; the payload of a shown reply carries that
\* category.
C19_FirstMatchWins ==
  /\ classifyQuery(lastUserQuery) = FirstMatch(lastUserQuery)
  /\ includes(toLowerCase(lastUserQuery), <<"h","o","w"," ","m","a","n","y">>)
       => classifyQuery(lastUserQuery) = "no-sidebar"
  /\ lastUserQuery = <<"w","h","o"," ","i","s"," ","o","n"," ","t","h","e"," ","l","i","s","t">>
       => classifyQuery(lastUserQuery) = "brief-show"
  /\ lastUserQuery = <<"c","s","v">>
       => classifyQuery(lastUserQuery) = "auto-decide"
  /\ sidebarData # Null =>
       /\ sidebarData[1].behavior = FirstMatch(sidebarData[1].query)
       /\ sidebarBehavior = sidebarData[1].behavior
  /\ AutoClosePending =>
       /\ sidebarData # Null
       /\ FirstMatch(sidebarData[1].query) = "brief-show"

C19_Witness ==
  /\ lastOp = "sendMessage:reply"
  /\ sidebarData # Null
  /\ sidebarData[1].behavior = "no-sidebar"
  /\ Matches(sidebarData[1].query, briefShowQueries)
  /\ Matches(sidebarData[1].query, detailedQueries)
  /\ sidebarData[1].query # toLowerCase(sidebarData[1].query)

\* C20 as stated: after a reply to a query classified auto-decide the panel
\* holds a payload when the reply has at most 10 result rows and none
\* otherwise.
C20_AutoDecideByRowCount ==
  (lastOp = "sendMessage:reply" /\ classifyQuery(lastUserQuery) = "auto-decide")
    => (sidebarData # Null <=> before.rows <= 10)

\* C20: after a reply to a query classified auto-decide the panel holds a
\* payload exactly when the reply has at least one result row and either at
\* most 10 rows or an artifact-eligible query or row count (a keyword, more
\* than 50 rows); with 11 to 50 rows and no keyword, and with no rows, it
\* holds none; an artifact-eligible reply is shown in artifact mode.
C20_AutoDecideShown ==
  (lastOp = "sendMessage:reply" /\ classifyQuery(lastUserQuery) = "auto-decide")
    => LET eligible == shouldShowArtifact(lastUserQuery, Rows(before.rows))
       IN /\ sidebarData # Null
               <=> (before.rows >= 1 /\ (before.rows <= 10 \/ eligible))
          /\ (before.rows > 50 /\ sidebarData # Null) => showArtifact
          /\ sidebarData # Null =>
               /\ sidebarData[1].behavior = "auto-decide"
               /\ Len(sidebarData[1].data) = before.rows
               /\ showArtifact = eligible
               /\ ~AutoClosePending
               /\ (table # Null) = ~eligible

C20_Witness ==
  /\ lastOp = "sendMessage:reply"
  /\ classifyQuery(lastUserQuery) = "auto-decide"
  /\ ~shouldShowArtifact(lastUserQuery, << >>)
  /\ before.rows = AutoDecideMaxRows
  /\ sidebarData # Null
  /\ ~showArtifact

\* Whether the lower-cased query holds one of the export keywords.
HasKeyword(userQuery) == Matches(userQuery, artifactKeywords)

\* C21: shouldShowArtifact is true for every reply of more than 50 rows
\* whatever the query, and for every query whose lower-cased text holds an
\* export keyword whatever the number of rows (none included); it is false
\* when neither holds; the payload of a shown reply carries that value.
C21_ArtifactEligibility ==
  /\ lastOp = "sendMessage:reply" =>
       LET eligible == shouldShowArtifact(lastUserQuery, Rows(before.rows))
       IN /\ before.rows > 50 => eligible
          /\ HasKeyword(lastUserQuery) => eligible
          /\ (before.rows <= 50 /\ ~HasKeyword(lastUserQuery)) => ~eligible
  /\ sidebarData # Null =>
       (sidebarData[1].showArtifact
          <=> (Len(sidebarData[1].data) > 50 \/ HasKeyword(sidebarData[1].query)))

C21_Witness ==
  /\ lastOp = "sendMessage:reply"
  /\ before.rows = 51
  /\ ~HasKeyword(lastUserQuery)
  /\ sidebarData # Null
  /\ sidebarData[1].showArtifact
  /\ showArtifact

----------------------------------------------------------------------------
\* TypewriterText and AnimatedTable.

\* The log positions a page can reach.
Positions == 1..(MaxCreated + 1)

\* The log positions of the replies to the queries of a page that started
\* with the greeting alone.
ReplyPositions == {i \in Positions : i >= 3 /\ i % 2 = 1}

\* The TypewriterText of the message at log position i is mounted.
Mounted(i) == i \in DOMAIN typewriters

\* The message at log position i has been marked complete.
Completed(i) == i <= Len(messages) /\ ~IsTyping(messages[i])

\* One step of the TypewriterText at position i, mounted before and after:
\* nothing, or its own tick showing the next prefix.
TypewriterStep(i) ==
  LET tw == typewriters[i]
      tx == typewriters'[i]
  IN /\ tx.text = tw.text
     /\ \/ tx = tw
        \/ /\ lastOp' = "typewriterTick"
           /\ before'.pos = i
           /\ tx.currentIndex = tw.currentIndex + 1
           /\ tx.displayText = SubSeq(tw.text, 1, tw.currentIndex + 1)
           /\ tx.interval = Some(tw.interval[1] + TypewriterSpeed)
           /\ now' = tw.interval[1]

\* C22: a TypewriterText of a text of length L >= 1 starts with nothing
\* shown, shows the prefixes of length 1, 2, ..., L in order, one per tick
\* of its 20 ms interval, and on the tick after the last prefix stops its
\* interval and calls the completion callback, which marks the message
\* complete and unmounts the TypewriterText: no tick follows and the
\* callback is not called again; while nothing tears it down, a mounted
\* TypewriterText reaches that completion.
C22_TextRevealRuns ==
  /\ [][\A i \in Positions :
          /\ (Mounted(i) /\ Mounted(i)') => TypewriterStep(i)
          /\ (~Mounted(i) /\ Mounted(i)') =>
               /\ typewriters'[i].currentIndex = 0
               /\ typewriters'[i].displayText = << >>
               /\ Len(typewriters'[i].text) >= 1
               /\ typewriters'[i].interval = Some(now' + TypewriterSpeed)
          /\ (Mounted(i) /\ ~Mounted(i)') =>
               /\ lastOp' = "handleTypingComplete"
               /\ before'.pos = i
               /\ typewriters[i].currentIndex = Len(typewriters[i].text)
               /\ typewriters[i].displayText = typewriters[i].text
               /\ Completed(i)'
          /\ lastOp' = "handleTypingComplete" =>
               /\ before'.pos \in DOMAIN typewriters
               /\ before'.pos \notin DOMAIN typewriters'
          /\ Completed(i) => (Completed(i)' /\ ~Mounted(i)')
          /\ Mounted(i)' => i \in ReplyPositions]_vars
  /\ \A i \in ReplyPositions : Mounted(i) ~> Completed(i)

C22_Witness ==
  /\ lastOp = "handleTypingComplete"
  /\ before.pos = 3
  /\ Len(messages[3].message) = 6
  /\ Completed(3)
  /\ ~Mounted(3)
  /\ now = messages[3].id - 1 + 7 * TypewriterSpeed

\* The rows the table shows, none while no table is mounted.
ShownRows == IF table = Null THEN 0 ELSE table[1].visibleRows

\* C23: the rows the table shows are at most min(rows of the payload, 50);
\* a table starts with no row, every tick of its 100 ms interval adds one
\* row, and nothing else changes the count except a start from 0; a table
\* that completed shows all n rows of a payload of n <= 50 rows and exactly
\* 50 rows of a larger one, and its interval is stopped.
C23_RowsCapped ==
  [][/\ table' # Null =>
          /\ sidebarData' # Null
          /\ ShownRows' <= Min(Len(sidebarData'[1].data), 50)
          /\ table'[1].isComplete =>
               /\ ShownRows' = Min(Len(sidebarData'[1].data), 50)
               /\ table'[1].interval = Null
     /\ lastOp' = "tableTick" => (table' # Null /\ ShownRows' = ShownRows + 1)
     /\ ShownRows' # ShownRows => (lastOp' = "tableTick" \/ ShownRows' = 0)
     /\ (table = Null /\ table' # Null) => ShownRows' = 0]_vars

C23_Witness ==
  /\ lastOp = "tableComplete"
  /\ table # Null
  /\ table[1].isComplete
  /\ Len(sidebarData[1].data) = 51
  /\ ShownRows = 50

\* C24: while one AnimatedTable stays mounted on an unchanged payload, no
\* step takes rows away from it or takes its completion back: the reveal
\* runs through the rows once and completes once.
C24_TableRunsOnce ==
  [][(/\ table # Null
      /\ table' # Null
      /\ sidebarData' = sidebarData
      /\ showArtifact' = showArtifact)
       => /\ ShownRows' >= ShownRows
          /\ table[1].isComplete => table'[1].isComplete]_vars

\* The operations that take the AnimatedTable, or every TypewriterText, off
\* the page.
TableTeardowns ==
  {"closeSidebar", "autoClose", "sendMessage", "toggleArtifact", "reload",
   "clearChatHistory"}

TypewriterTeardowns == {"reload", "clearChatHistory"}

\* C25: a reveal whose owner is taken off the page (the panel closed by
\* its button, by the auto-close or by a new submission while rows are
\* still being revealed; a TypewriterText unmounted) loses its interval
\* with it: rows and characters are revealed and completion callbacks are
\* called only by the interval of a table or TypewriterText that is mounted
\* on a panel or message still being revealed, so that after the teardown
\* no tick and no completion of that reveal follows.
C25_TeardownCancelsTicks ==
  [][/\ table' # Null => (sidebarData' # Null /\ ~showArtifact')
     /\ \A i \in Positions : Mounted(i)' => (i <= Len(messages') /\ IsTyping(messages'[i]))
     /\ (table # Null /\ table' = Null) =>
          /\ lastOp' \in TableTeardowns
          /\ sidebarData' = Null \/ showArtifact'
          /\ sidebarTyping' = sidebarTyping \/ lastOp' = "closeSidebar"
                                             \/ lastOp' \in TypewriterTeardowns
     /\ lastOp' \in {"tableTick", "tableComplete"} =>
          /\ table # Null
          /\ table[1].interval = Some(now')
          /\ table' # Null
          /\ sidebarData' = sidebarData
     /\ lastOp' \in {"typewriterTick", "handleTypingComplete"} =>
          /\ Mounted(before'.pos)
          /\ typewriters[before'.pos].interval = Some(now')
     /\ \A i \in Positions :
          (Mounted(i) /\ ~Mounted(i)' /\ lastOp' # "handleTypingComplete") =>
            /\ lastOp' \in TypewriterTeardowns
            /\ typewriters' = << >>
            /\ \A j \in 1..Len(messages') : ~IsTyping(messages'[j])]_vars

C25_Witness ==
  /\ lastOp = "closeSidebar"
  /\ before.tableRunning
  /\ before.autoClosePending
  /\ table = Null
  /\ ~AutoClosePending
  /\ typewriters # << >>

----------------------------------------------------------------------------
\* TypewriterText and AnimatedTable as components of their own: mounted at
\* the start with a text and with rows of any length, the empty ones that
\* ChatBot never hands them included.

RevealTexts == { << >>, <<"a">>, <<"a","b">>, <<"a","b","c">> }

RevealRowCounts == {0, 1, 2, 3}

RevealQuery == <<"L","i","s","t">>

InitReveal ==
  /\ now = StartClock
  /\ \E text \in RevealTexts, n \in RevealRowCounts :
       LET data == [message |-> text, results |-> Rows(n), result_count |-> n,
                    processing_time |-> 1, success |-> TRUE]
           msgs == << greetingMessage(GreetingId, StartClock),
                      userMessage(StartClock, RevealQuery),
                      botMessage(StartClock, RevealQuery, text, n, data) >>
           sd == Some([title |-> panelTitle(n), data |-> Rows(n),
                       query |-> RevealQuery, behavior |-> "show-sidebar",
                       showArtifact |-> FALSE])
           sid == newSessionId(StartClock, 1)
       IN /\ messages = msgs
          /\ sessionId = sid
          /\ storage = saveEffect([EmptyStorage EXCEPT !.session_id = Some(sid)],
                                  msgs)
          /\ typingMessageId = Some(msgs[3].id)
          /\ sidebarData = sd
          /\ typewriters = renderTypewriters(msgs, << >>, StartClock)
          /\ table = renderTable(sd, FALSE, StartClock)
  /\ inputMessage = << >>
  /\ isLoading = FALSE
  /\ sidebarTyping = FALSE
  /\ showInitialSuggestions = FALSE
  /\ lastUserQuery = RevealQuery
  /\ sidebarBehavior = "show-sidebar"
  /\ showArtifact = FALSE
  /\ autoCloseTimer = Null
  /\ request = Null
  /\ timeouts = {}
  /\ download = Null
  /\ nextTimerId = 1
  /\ created = 2
  /\ actions = 0
  /\ lastOp = "mount"
  /\ before = NothingBefore

RevealCallbacks ==
  \/ \E i \in DOMAIN typewriters : typewriterTick(i)
  \/ tableTick
  \/ timePasses

NextReveal ==
  \/ \E i \in DOMAIN typewriters : typewriterTick(i)
  \/ tableTick
  \/ timePasses
  \/ UserTurn /\ \E text \in Inputs : editInput(text)
  \/ UserTurn /\ closeSidebar

SpecReveal == InitReveal /\ [][NextReveal]_vars /\ WF_vars(RevealCallbacks)

C27_ExplicitClose ==
  [][/\ sidebarData # Null => ENABLED closeSidebar
     /\ lastOp' = "closeSidebar" =>
          /\ sidebarData # Null
          /\ sidebarData' = Null
          /\ ~showArtifact'
          /\ ~sidebarTyping'
          /\ table' = Null
          /\ ~AutoClosePending'
          /\ autoCloseTimer' = Null
          /\ messages' = messages
          /\ request' = request
     /\ sidebarData' = Null => (~showArtifact' /\ table' = Null)
     /\ (sidebarData = Null /\ sidebarData' # Null) =>
          /\ lastOp' = "sendMessage:reply"
          /\ sidebarData'[1].query = lastUserQuery]_vars

C27_Witness ==
  /\ lastOp = "closeSidebar"
  /\ before.sidebarOpen
  /\ before.autoClosePending
  /\ sidebarData = Null
  /\ ~showArtifact
  /\ timeouts = {}
  /\ autoCloseTimer = Null

\* C28: the artifact view is on only while the panel holds a payload whose
\* showArtifact flag is set, and the toggle can be pressed only for such a
\* payload; pressing it flips the view flag and leaves the payload, the
\* log, the timers and the request as they are.
C28_ArtifactViewOnlyIfEligible ==
  [][/\ showArtifact' => (sidebarData' # Null /\ sidebarData'[1].showArtifact)
     /\ (ENABLED toggleArtifact) =>
          (sidebarData # Null /\ sidebarData[1].showArtifact)
     /\ lastOp' = "toggleArtifact" =>
          /\ sidebarData # Null
          /\ sidebarData[1].showArtifact
          /\ showArtifact' = ~showArtifact
          /\ (table' # Null) = ~showArtifact'
          /\ UNCHANGED << download, storage, messages, inputMessage, isLoading,
                          sessionId, typingMessageId, sidebarData,
                          sidebarTyping, showInitialSuggestions, lastUserQuery,
                          sidebarBehavior, autoCloseTimer, request, timeouts,
                          typewriters >>]_vars

C28_Witness ==
  /\ lastOp = "toggleArtifact"
  /\ sidebarData # Null
  /\ sidebarData[1].showArtifact
  /\ ~showArtifact
  /\ table # Null

----------------------------------------------------------------------------
\* The suggestions of a reply (generateSuggestions, lines 888-929): queries
\* that name one topic, several topics, or none, in mixed letter case.

TopicQueries ==
  { <<"I","n","d","i","a"," ","u","s","e","r","s">>,
    <<"d","e","p","a","r","t","m","e","n","t"," ","b","y"," ","c","o","u","n","t","r","y">>,
    <<"L","I","C","E","N","S","E"," ","d","e","p","a","r","t","m","e","n","t">>,
    <<"l","i","c","e","n","s","e","s"," ","p","e","r"," ","c","o","u","n","t","r","y">>,
    <<"A","c","t","i","v","e"," ","c","o","u","n","t","r","i","e","s">>,
    <<"i","n","a","c","t","i","v","e">>,
    <<"h","i">> }

\* The first exchange of the page draws from the topic queries.
TopicQueriesAt(n) == IF n = 0 THEN TopicQueries ELSE LongQueries

NextSuggest ==
  \/ UserTurn /\ \E q \in TopicQueriesAt(created), latency \in Latencies : sendMessage(Some(q), latency)
  \/ \E data \in Responses : sendMessageReply(data)
  \/ \E error \in ErrorTexts : sendMessageCatch(error)
  \/ \E i \in DOMAIN typewriters : typewriterTick(i)
  \/ tableTick
  \/ \E x \in timeouts : timeoutFire(x)
  \/ UserTurn /\ reload
  \/ timePasses

SpecSuggest == Init /\ [][NextSuggest]_vars

\* Whether the lower-cased query holds the keywords of a topic.
TopicMatches(topic, userQuery) ==
  LET query == toLowerCase(userQuery)
  IN CASE topic = "india" ->
            /\ includes(query, <<"u","s","e","r">>)
            /\ includes(query, <<"i","n","d","i","a">>)
       [] topic = "department" ->
            includes(query, <<"d","e","p","a","r","t","m","e","n","t">>)
       [] topic = "license" -> includes(query, <<"l","i","c","e","n","s","e">>)
       [] topic = "country" ->
            \/ includes(query, <<"c","o","u","n","t","r","y">>)
            \/ includes(query, <<"c","o","u","n","t","r","i","e","s">>)
       [] topic = "active" -> includes(query, <<"a","c","t","i","v","e">>)
       [] OTHER -> FALSE

\* The first topic of the order whose keywords the query holds.
FirstTopic(userQuery, order) ==
  LET hits == {k \in 1..Len(order) : TopicMatches(order[k], userQuery)}
  IN IF hits = {} THEN "default"
     ELSE order[CHOOSE k \in hits : \A h \in hits : k <= h]

\* The topic of a list of suggestions, told by its first prompt.
TopicOf(suggestions) ==
  CASE suggestions[1] = "Show me users from other countries" -> "india"
    [] suggestions[1] = "Which department has the most users?" -> "department"
    [] suggestions[1] = "Show me license utilization rates" -> "license"
    [] suggestions[1] = "Show me user distribution by country" -> "country"
    [] suggestions[1] = "Show me inactive users" -> "active"
    [] suggestions[1] = "How many users do we have by country?" -> "default"
    [] OTHER -> "none"

\* The log positions of the replies generateSuggestions wrote the
\* suggestions of.
Suggested ==
  {i \in 2..Len(messages) :
     /\ messages[i].type = "bot"
     /\ "suggestions" \in DOMAIN messages[i]
     /\ messages[i].success
     /\ messages[i - 1].type = "user"}

\* C29 as stated: every reply carries exactly 3 suggestions, those of the
\* first topic in the order country, department, license, active whose
\* keywords the lower-cased query holds, the default ones when none does.
C29_TopicOrderCountryFirst ==
  \A i \in Suggested :
    /\ Len(messages[i].suggestions) = 3
    /\ TopicOf(messages[i].suggestions)
         = FirstTopic(messages[i - 1].message,
                      <<"country", "department", "license", "active">>)

\* C29: every reply carries exactly 3 suggestions, those of the first
\* topic whose keywords the lower-cased query holds in the order: "user"
\* together with "india", "department", "license", "country" or
\* "countries", "active"; the default ones when none does.
C29_TopicOrder ==
  \A i \in Suggested :
    /\ Len(messages[i].suggestions) = 3
    /\ TopicOf(messages[i].suggestions)
         = FirstTopic(messages[i - 1].message,
                      <<"india", "department", "license", "country", "active">>)

C29_Witness ==
  /\ lastOp = "sendMessage:reply"
  /\ Len(messages) = 3
  /\ TopicMatches("country", lastUserQuery)
  /\ TopicMatches("department", lastUserQuery)
  /\ TopicOf(messages[3].suggestions) = "department"

----------------------------------------------------------------------------
\* Message ids (Date.now() at the submission, Date.now() + 1 at the reply):
\* the clock read to the millisecond, the user acting at any instant.

\* One millisecond passes with no callback due before it ends.
msPasses ==
  /\ actions < MaxActions
  /\ actions' = actions + 1
  /\ \A d \in Deadlines : now + 1 <= d
  /\ now' = now + 1
  /\ lastOp' = "msPasses"
  /\ before' = Observed(<< >>, 0, 0)
  /\ UNCHANGED << progVars, created >>

NextIds ==
  \/ \E q \in LongQueries, latency \in Latencies : sendMessage(Some(q), latency)
  \/ \E data \in Responses : sendMessageReply(data)
  \/ \E error \in ErrorTexts : sendMessageCatch(error)
  \/ \E i \in DOMAIN typewriters : typewriterTick(i)
  \/ tableTick
  \/ \E x \in timeouts : timeoutFire(x)
  \/ msPasses

SpecIds == Init /\ [][NextIds]_vars

\* C30: no two messages of the log share an id, and the ids increase in
\* the order of insertion (user id = clock at the submission, assistant id
\* = clock at the reply + 1, greeting id = 1).
C30_IdsIncrease ==
  \A i, j \in 1..Len(messages) : i < j => messages[i].id < messages[j].id

----------------------------------------------------------------------------
\* Persistence of completed replies, the frame of handleTypingComplete.

\* C31: the step in which the text reveal of an assistant message
\* completes writes the log to localStorage: the stored list then holds
\* that message with isTyping false, right after the user message that
\* caused it, and the stored list holds no message still being revealed.
C31_CompletedReplyStored ==
  [][lastOp' = "handleTypingComplete" =>
       LET i == before'.pos
           stored == StoredMessages'
       IN /\ i >= 2
          /\ ~IsTyping(messages'[i])
          /\ messages'[i].type = "bot"
          /\ messages'[i - 1].type = "user"
          /\ \E k \in 2..Len(stored) :
               /\ stored[k] = stringifyMessage(messages'[i])
               /\ stored[k].isTyping = FALSE
               /\ stored[k - 1] = stringifyMessage(messages'[i - 1])
          /\ \A k \in 1..Len(stored) : ~IsTyping(stored[k])]_vars

C31_Witness ==
  /\ lastOp = "handleTypingComplete"
  /\ before.pos = 3
  /\ Len(StoredMessages) = 3
  /\ StoredMessages[3].type = "bot"
  /\ StoredMessages[3].isTyping = FALSE
  /\ StoredMessages[2].message = lastUserQuery

----------------------------------------------------------------------------
\* ArtifactView and its CSV download (lines 701-720).

\* The records the backend returns: row r of a result stands for the
\* record {id: r, note: NoteOf(r)}, whose notes hold quotes, line breaks and
\* commas.
ColumnNames == << <<"i","d">>, <<"n","o","t","e">> >>

NoteOf(r) ==
  CASE r % 3 = 0 -> << >>
    [] r % 3 = 1 -> <<"a","\"","\n","b">>
    [] OTHER -> <<"c",",","d">>

\* String(row[col] || '')
cellText(row, col) == IF col = ColumnNames[1] THEN String(row) ELSE NoteOf(row)

\* Object.keys(data[0]), none for an empty result.
columnsOf(data) == IF Len(data) > 0 THEN ColumnNames ELSE << >>

\* s.replace(/"/g, '""')
escapeQuotes(s) ==
  join([i \in 1..Len(s) |-> IF s[i] = "\"" THEN <<"\"","\"">> ELSE << s[i] >>],
       << >>)

csvField(v) == <<"\"">> \o escapeQuotes(v) \o <<"\"">>

csvRow(row, columns) ==
  join([k \in 1..Len(columns) |-> csvField(cellText(row, columns[k]))], <<",">>)

\* csvContent of the first rows only.
csvContentCapped(data) ==
  LET columns == columnsOf(data)
      headers == join(columns, <<",">>)
      rows == [i \in 1..Min(Len(data), TableMaxRows) |-> csvRow(data[i], columns)]
  IN join(<< headers >> \o rows, <<"\n">>)

csvContent(data) ==
  LET columns == columnsOf(data)
      headers == join(columns, <<",">>)
      rows == [i \in 1..Len(data) |-> csvRow(data[i], columns)]
  IN join(<< headers >> \o rows, <<"\n">>)

\* fileName that drops the characters it does not keep.
fileNameStripped(title) ==
  SelectSeq(title, IsAlphanumeric) \o <<".","c","s","v">>

\* `${title.replace(/[^a-zA-Z0-9]/g, '_')}.csv`
fileName(title) ==
  [i \in 1..Len(title) |-> IF IsAlphanumeric(title[i]) THEN title[i] ELSE "_"]
    \o <<".","c","s","v">>

\* The Download CSV button of ArtifactView, which is rendered while the
\* artifact view is on.
downloadCSV ==
  /\ sidebarData # Null
  /\ showArtifact
  /\ actions < MaxActions
  /\ actions' = actions + 1
  /\ download' = Some([name |-> fileName(sidebarData[1].title),
                       content |-> csvContent(sidebarData[1].data)])
  /\ lastOp' = "downloadCSV"
  /\ before' = Observed(<< >>, 0, Len(sidebarData[1].data))
  /\ UNCHANGED << now, storage, messages, inputMessage, isLoading, sessionId,
                  typingMessageId, sidebarData, sidebarTyping,
                  showInitialSuggestions, lastUserQuery, sidebarBehavior,
                  showArtifact, autoCloseTimer, request, timeouts, nextTimerId,
                  typewriters, table, created >>

ExportQueries == { <<"c","s","v">>, <<"h","i">> }

ExportResultSizes == {1, AutoDecideMaxRows + 1, ArtifactMinRows + 1, 200}

ExportResponses ==
  { [message |-> txt, results |-> Rows(n), result_count |-> n,
     processing_time |-> 1, success |-> TRUE] :
      txt \in BotTexts, n \in ExportResultSizes }

\* The first exchange of the page draws from the export inputs.
ExportQueriesAt(n) == IF n = 0 THEN ExportQueries ELSE LongQueries

ExportResponsesAt(n) == IF n = 1 THEN ExportResponses ELSE NoRowResponses

NextExport ==
  \/ UserTurn /\ \E q \in ExportQueriesAt(created), latency \in Latencies : sendMessage(Some(q), latency)
  \/ \E data \in ExportResponsesAt(created) : sendMessageReply(data)
  \/ \E i \in DOMAIN typewriters : typewriterTick(i)
  \/ tableTick
  \/ UserTurn /\ closeSidebar
  \/ UserTurn /\ toggleArtifact
  \/ UserTurn /\ downloadCSV
  \/ timePasses

SpecExport == Init /\ [][NextExport]_vars

\* What a reader of CSV finds in a stretch of the text: whether it holds an
\* odd number of quotes, and the line breaks outside quoted fields when the
\* stretch starts outside and when it starts inside one.
RECURSIVE Scan(_, _, _)
Scan(s, lo, hi) ==
  IF lo = hi
    THEN [flip |-> s[lo] = "\"",
          out |-> IF s[lo] = "\n" THEN 1 ELSE 0,
          in |-> 0]
    ELSE LET mid == (lo + hi) \div 2
             a == Scan(s, lo, mid)
             b == Scan(s, mid + 1, hi)
         IN [flip |-> a.flip # b.flip,
             out |-> a.out + (IF a.flip THEN b.in ELSE b.out),
             in |-> a.in + (IF a.flip THEN b.out ELSE b.in)]

\* The number of records a reader of CSV finds in the text.
CsvRecords(s) == IF s = << >> THEN 1 ELSE Scan(s, 1, Len(s)).out + 1

\* C32: the CSV the download button produces covers the whole payload: it
\* starts with the header line "id,note" and holds, after it, exactly one
\* record for each of the n rows of the payload (200 for 200 rows, beyond
\* the 50 rows of the table and the 10 of the preview), whatever quotes and
\* line breaks the fields hold.
C32_CsvCoversPayload ==
  [][lastOp' = "downloadCSV" =>
       /\ download' # Null
       /\ sidebarData # Null
       /\ sidebarData' = sidebarData
       /\ LET n == Len(sidebarData[1].data)
              content == download'[1].content
          IN /\ n >= 1
             /\ CsvRecords(content) = n + 1
             /\ SubSeq(content, 1, 8) = <<"i","d",",","n","o","t","e","\n">>]_vars

C32_Witness ==
  /\ lastOp = "downloadCSV"
  /\ download # Null
  /\ Len(sidebarData[1].data) = 200
  /\ CsvRecords(download[1].content) = 201

\* C33 as stated: the suggested file name is the panel title with every
\* non-alphanumeric character stripped, followed by ".csv".
C33_FileNameStripped ==
  [][lastOp' = "downloadCSV" =>
       /\ download' # Null
       /\ sidebarData # Null
       /\ download'[1].name =
            SelectSeq(sidebarData[1].title, IsAlphanumeric) \o <<".","c","s","v">>]_vars

\* C33 amended: the suggested file name is the panel title with every
\* non-alphanumeric character replaced by an underscore (so it keeps the
\* length of the title), followed by ".csv"; the title "Query Results (200
\* records)" gives "Query_Results__200_records_.csv".
C33_FileNameUnderscored ==
  [][lastOp' = "downloadCSV" =>
       /\ download' # Null
       /\ sidebarData # Null
       /\ LET title == sidebarData[1].title
              name == download'[1].name
          IN /\ Len(name) = Len(title) + 4
             /\ SubSeq(name, Len(title) + 1, Len(name)) = <<".","c","s","v">>
             /\ \A i \in 1..Len(title) :
                  name[i] = IF IsAlphanumeric(title[i]) THEN title[i] ELSE "_"
             /\ Len(sidebarData[1].data) = 200 =>
                  name = <<"Q","u","e","r","y","_","R","e","s","u","l","t","s",
                           "_","_","2","0","0","_","r","e","c","o","r","d","s",
                           "_",".","c","s","v">>]_vars

C33_Witness ==
  /\ lastOp = "downloadCSV"
  /\ download # Null
  /\ sidebarData # Null
  /\ sidebarData[1].title =
       <<"Q","u","e","r","y"," ","R","e","s","u","l","t","s"," ","(","2","0",
         "0"," ","r","e","c","o","r","d","s",")">>
  /\ Len(download[1].name) = 31

\* The fields of a message other than isTyping.
OtherFields(m) == [f \in DOMAIN m \ {"isTyping"} |-> m[f]]

\* C34: the completion of the text reveal of a message changes only the
\* isTyping flag of that message: its other fields, every other message, and
\* the order and length of the log stay as they were; and no operation other
\* than reload and clearChatHistory removes a message from the log.
C34_CompletionFrame ==
  [][/\ lastOp' = "handleTypingComplete" =>
          LET i == before'.pos
          IN /\ Len(messages') = Len(messages)
             /\ i \in 1..Len(messages)
             /\ OtherFields(messages'[i]) = OtherFields(messages[i])
             /\ ~IsTyping(messages'[i])
             /\ \A j \in 1..Len(messages) : j # i => messages'[j] = messages[j]
     /\ lastOp' \notin {"reload", "clearChatHistory"} =>
          /\ Len(messages') >= Len(messages)
          /\ \A j \in 1..Len(messages) :
               OtherFields(messages'[j]) = OtherFields(messages[j])]_vars

\* C35: when the text reveal of an assistant message completes while the
\* panel holds a payload with at least one row, the start of the table
\* animation is scheduled: a timeout that sets sidebarTyping is pending for
\* 300 ms after the completion.
C35_CompletionStartsTable ==
  [][(/\ lastOp' = "handleTypingComplete"
      /\ messages'[before'.pos].type = "bot"
      /\ sidebarData' # Null
      /\ Len(sidebarData'[1].data) >= 1)
       => \E x \in timeouts' : x.kind = "sidebarTyping" /\ x.at = now' + TableStartDelay]_vars

\* C36: the text reveals of different messages are independent.  While the
\* TypewriterText of a message is mounted, the start of the reveal of
\* another message, and each tick and the completion of another reveal,
\* leave its text, its shown prefix, its position and its timer as they
\* were, and do not mark its message complete.
C36_RevealsIndependent ==
  [][\A i, j \in Positions :
       (i # j /\ Mounted(j)) =>
         /\ (lastOp' \in {"typewriterTick", "handleTypingComplete"} /\ before'.pos = i) =>
              /\ Mounted(j)'
              /\ typewriters'[j] = typewriters[j]
              /\ messages'[j] = messages[j]
              /\ IsTyping(messages'[j])
         /\ (~Mounted(i) /\ Mounted(i)') =>
              /\ Mounted(j)'
              /\ typewriters'[j] = typewriters[j]
              /\ messages'[j] = messages[j]]_vars

C36_Witness ==
  /\ lastOp = "handleTypingComplete"
  /\ before.pos = 3
  /\ ~Mounted(3)
  /\ Mounted(5)
  /\ typewriters[5].currentIndex >= 1
  /\ typewriters[5].displayText = SubSeq(messages[5].message, 1, typewriters[5].currentIndex)

\* C37: while a request is outstanding (isLoading is set) the panel holds no
\* payload, the artifact view is off and no auto-close timer is pending;
\* and the panel goes from no payload to a payload only in the step that
\* handles a successful reply, which also ends the request.
C37_NoPayloadWhileLoading ==
  /\ [](isLoading => (sidebarData = Null /\ ~showArtifact /\ ~AutoClosePending /\ autoCloseTimer = Null /\ request # Null))
  /\ [][(sidebarData = Null /\ sidebarData' # Null) =>
          /\ lastOp' = "sendMessage:reply"
          /\ isLoading /\ ~isLoading'
          /\ request # Null /\ request' = Null
          /\ before'.rows >= 1]_vars

C37_Witness ==
  /\ lastOp = "sendMessage"
  /\ isLoading
  /\ before.sidebarOpen
  /\ before.autoClosePending
  /\ sidebarData = Null
  /\ ~AutoClosePending

\* The auto-close timeouts that are pending.
AutoCloseTimers == {x \in timeouts : x.kind = "autoClose"}

\* C38: at most one auto-close timer is pending, and while one is pending it
\* is the one armed by the latest reply: the panel holds the brief-show
\* payload of that reply, the last message of the log is that reply, and the
\* timer is due 5000 ms after it was handled.  So the timer that fires
\* clears the payload it was armed for, never the payload of a later reply.
C38_OneAutoCloseTimer ==
  /\ [](/\ Cardinality(AutoCloseTimers) <= 1
        /\ \A x \in AutoCloseTimers :
             /\ autoCloseTimer = Some(x.id)
             /\ sidebarData # Null
             /\ sidebarData[1].behavior = "brief-show"
             /\ sidebarData[1].query = lastUserQuery
             /\ Len(sidebarData[1].data) >= 1
             /\ messages[Len(messages)].type = "bot"
             /\ x.at = messages[Len(messages)].id - 1 + AutoCloseDelay)
  /\ [][lastOp' = "autoClose" =>
          /\ sidebarData # Null
          /\ sidebarData[1].behavior = "brief-show"
          /\ now' = messages[Len(messages)].id - 1 + AutoCloseDelay
          /\ sidebarData' = Null
          /\ AutoCloseTimers' = {}]_vars

C38_Witness ==
  /\ lastOp = "sendMessage:reply"
  /\ Len(messages) = 5
  /\ classifyQuery(messages[2].message) = "brief-show"
  /\ messages[3].result_count = 1
  /\ Cardinality(AutoCloseTimers) = 1
  /\ \A x \in AutoCloseTimers : x.at = messages[5].id - 1 + AutoCloseDelay
  /\ sidebarData # Null

\* The roles of the messages of a log, in order.
Types(list) == [i \in 1..Len(list) |-> list[i].type]

\* A message that came from localStorage: restoring gives every message an
\* isTyping field, which the user messages sendMessage appends do not have.
Restored(m) == "isTyping" \in DOMAIN m

\* C39 as stated: within one page lifetime the messages appended to the
\* initial log alternate user, assistant, and the last message of the log is
\* a user message exactly while a request is outstanding.
C39_LastIsUserIffRequest ==
  (messages[Len(messages)].type = "user") <=> (request # Null)

\* C39 amended: within one page lifetime an accepted submission finds no
\* request outstanding and appends exactly one user message; the reply or
\* the failure of the request appends exactly one assistant message after
\* that user message; no other operation but reload and clearChatHistory
\* changes the length or the roles of the log or the request.  So the
\* messages appended to the initial log alternate user, assistant; while a
\* request is outstanding the last message is a user message, and a last
\* message that is a user message with no request outstanding is a message
\* of the initial log, restored by a reload that interrupted its request.
C39_AppendsAlternate ==
  /\ [](request # Null => messages[Len(messages)].type = "user")
  /\ []((messages[Len(messages)].type = "user" /\ request = Null) =>
          Restored(messages[Len(messages)]))
  /\ [][/\ (lastOp' = "sendMessage" /\ messages' # messages) =>
             /\ request = Null /\ request' # Null
             /\ Len(messages') = Len(messages) + 1
             /\ SubSeq(messages', 1, Len(messages)) = messages
             /\ messages'[Len(messages')].type = "user"
             /\ messages'[Len(messages')].message = lastUserQuery'
        /\ lastOp' \in {"sendMessage:reply", "sendMessage:catch"} =>
             /\ request # Null /\ request' = Null
             /\ messages[Len(messages)].type = "user"
             /\ Len(messages') = Len(messages) + 1
             /\ SubSeq(messages', 1, Len(messages)) = messages
             /\ messages'[Len(messages')].type = "bot"
        /\ lastOp' \notin {"sendMessage", "sendMessage:reply", "sendMessage:catch",
                           "reload", "clearChatHistory"} =>
             /\ Types(messages') = Types(messages)
             /\ request' = request
        /\ (lastOp' = "sendMessage" /\ messages' = messages) => request' = request]_vars

C39_Witness ==
  /\ lastOp = "sendMessage:reply"
  /\ Types(messages) = <<"bot", "user", "user", "bot">>
  /\ Restored(messages[2])
  /\ ~Restored(messages[3])
  /\ request = Null

\* C40: a reload restores exactly the latest StorageCap messages of the
\* log that were not being revealed, in the order of the log, each with its
\* fields as they were and with isTyping false; no TypewriterText is mounted
\* afterwards, so no reveal is resumed; a reply that was being revealed is
\* absent from the restored log, while the user message before it is kept.
C40_ReloadRestoresFinalized ==
  [][lastOp' = "reload" =>
       LET kept == SelectSeq(messages, NotTyping)
           from == Max(0, Len(kept) - StorageCap)
       IN /\ Len(messages') = Len(kept) - from
          /\ Len(messages') <= StorageCap
          /\ \A k \in 1..Len(messages') :
               /\ OtherFields(messages'[k]) = OtherFields(kept[from + k])
               /\ Restored(messages'[k])
               /\ ~messages'[k].isTyping
          /\ DOMAIN typewriters' = {}
          /\ \A i \in Revealing :
               /\ \A k \in 1..Len(messages') : messages'[k].id # messages[i].id
               /\ (i >= 2 /\ messages[i - 1].type = "user") =>
                    \E k \in 1..Len(messages') :
                      OtherFields(messages'[k]) = OtherFields(messages[i - 1])]_vars

C40_Witness ==
  /\ lastOp = "reload"
  /\ created = 2
  /\ Len(messages) = StorageCap
  /\ messages[1].type = "user"
  /\ messages[StorageCap].type = "user"
  /\ messages[StorageCap].id >= StartClock
  /\ DOMAIN typewriters = {}

====
